---- MODULE Spec2Model ----
(***************************************************************************)
(* Sharded-cluster membership reconciliation of the mongodb-operator charm *)
(* (lib/charms/mongodb/v0/mongos.py, shards_interface.py).                 *)
(*                                                                         *)
(* The router (mongos) is the external collaborator: its shard list is the *)
(* variable `shards`, a set of listShards documents.  A document has the   *)
(* fields id and host and, only once a removal was started, draining.      *)
(* One handler run is one action.  The replies of the router, the failure  *)
(* of a command and the iteration order of a Python set are not decided by *)
(* the program, so every operator that models code returns the SET of the  *)
(* execution contexts the code can end in.                                 *)
(***************************************************************************)
EXTENDS Integers, Sequences, FiniteSets, TLC

\* ---------------------------------------------------------------- bounds
MaxShards == 2        \* shard applications that can be related
MaxHosts == 1         \* units of one shard application
MaxDeferred == 2      \* deferred events waiting for their re-run
MaxUnits == 3         \* units of the application being upgraded

\* ------------------------------------------------------------- constants
MONGODB_PORT == 27017
FORBIDDEN_REMOVAL_ERR_CODE == 20
OtherErrCode == 70
STEP_DOWN_ATTEMPTS == 30
POST_UPGRADE_ATTEMPTS == 20

AllShardNames == <<"s1", "s2", "s3", "s4", "s5">>
RelIds == 1 .. MaxShards
Names == {AllShardNames[r] : r \in RelIds}
None == "None"
NoStatus == <<"Unknown", "">>

Roles == {"replication", "config-server", "shard"}

VARIABLES
    shards,          \* router: the documents listShards returns
    primary,         \* router: the primary shard (holds the unsharded data), or None
    relations,       \* model.relations[relation_name]: relation id -> number of its units
    role,            \* charm.role
    is_leader,       \* charm.unit.is_leader()
    db_initialised,  \* charm.db_initialised
    pbm_maintenance, \* backups._get_pbm_status() is a MaintenanceStatus
    status,          \* charm.unit.status of the shard unit
    deferred,        \* number of deferred events waiting for their re-run
    app_peer_data,   \* charm.app_peer_data of the shard application
    waiting,         \* the shard unit is inside the wait loop of _on_relation_broken
    upgrade,         \* the unit being upgraded: its inputs and what the last operation did
    last             \* what the last handler run did (commands, calls, exception, deferrals)

vars == <<shards, primary, relations, role, is_leader, db_initialised,
          pbm_maintenance, status, deferred, app_peer_data, waiting, upgrade, last>>

\* --------------------------------------------------------------- helpers
Ids(docs) == {d.id : d \in docs}
Doc(docs, name) == CHOOSE d \in docs : d.id = name

\* sequential composition: every context F can reach from a context of S
Bind(S, F(_)) == UNION {F(st) : st \in S}

\* relation.app.name
_get_shard_name_from_relation(relation) == AllShardNames[relation]

\* private-address of the i-th unit of a relation
UnitAddress(relation, i) == <<"host", relation, i>>

\* Python values: a boolean or a string
PyBool(b) == [t |-> "bool", v |-> b]
PyStr(x) == [t |-> "str", v |-> x]
NoValue == [t |-> "none"]
\* json.dumps of a boolean or of a string
JsonDumps(val) ==
    IF val.t = "bool" THEN PyStr(IF val.v THEN "true" ELSE "false")
    ELSE PyStr("\"" \o val.v \o "\"")

\* exceptions: a record with the class and, for an OperationFailure, the code
NoExc == [type |-> "none"]
Exc(t) == [type |-> t]
OperationFailure(code) == [type |-> "OperationFailure", code |-> code]
PyMongoErrorTypes == {"OperationFailure", "PyMongoError"}
IsPyMongoError(e) == e.type \in PyMongoErrorTypes

\* ------------------------------------------------- the router (mongos)
\* shard.get("draining", False)
DrainingFlag(shard) == IF "draining" \in DOMAIN shard THEN shard.draining ELSE FALSE

\* the shards of a listing that are draining
Draining(docs) == {d.id : d \in {x \in docs : DrainingFlag(x)}}

\* the errors a command can fail with whatever the state of the router
ReadFailures == {Exc("PyMongoError")}
WriteFailures == {OperationFailure(FORBIDDEN_REMOVAL_ERR_CODE), OperationFailure(OtherErrCode),
                  Exc("PyMongoError")}

\* addShard <name>/<host:port,...>: the shard is listed under the replica set name of the url
RouterAddShard(docs, shard_url) ==
    IF shard_url[1] \in Ids(docs) THEN docs
    ELSE docs \cup {[id |-> shard_url[1], host |-> shard_url]}

\* removeShard <name>: the replies of the router, each with the shard list it leaves.
\* Refused with code 20 when it is the last shard.  The first call marks the shard
\* draining; a later call finds it still draining or, unless it is the primary shard
\* (whose databases have to be moved first), drained, and then takes it off the list.
RouterRemoveShard(docs, prim, name) ==
    IF name \notin Ids(docs)
    THEN {[shards |-> docs, exc |-> OperationFailure(OtherErrCode)]}
    ELSE IF {d \in docs : d.id # name} = {}
    THEN {[shards |-> docs, exc |-> OperationFailure(FORBIDDEN_REMOVAL_ERR_CODE)]}
    ELSE LET doc == Doc(docs, name) IN
         {[shards |-> (docs \ {doc}) \cup {[id |-> doc.id, host |-> doc.host, draining |-> TRUE]},
           exc |-> NoExc]}
         \cup (IF DrainingFlag(doc) /\ name # prim
               THEN {[shards |-> docs \ {doc}, exc |-> NoExc]} ELSE {})

\* the context after a command: the command is logged with its outcome
Reply(st, cmd, shard, url, docs, e) ==
    [st EXCEPT !.shards = docs, !.exc = e,
               !.cmds = Append(@, [cmd |-> cmd, shard |-> shard, url |-> url, exc |-> e,
                                   primary |-> st.primary, docs |-> docs])]

\* client.admin.command("listShards")
ListShards(st) ==
    {Reply(st, "listShards", None, <<>>, st.shards, e) : e \in {NoExc} \cup ReadFailures}

\* client.admin.command("addShard", shard_url)
AddShardCommand(st, shard_url) ==
    {Reply(st, "addShard", shard_url[1], shard_url, RouterAddShard(st.shards, shard_url), NoExc)}
    \cup {Reply(st, "addShard", shard_url[1], shard_url, st.shards, e) : e \in WriteFailures}

\* client.admin.command("removeShard", shard_name)
RemoveShardCommand(st, shard_name) ==
    {Reply(st, "removeShard", shard_name, <<>>, r.shards, r.exc) :
        r \in RouterRemoveShard(st.shards, st.primary, shard_name)}
    \cup {Reply(st, "removeShard", shard_name, <<>>, st.shards, e) : e \in WriteFailures}

Raise(st, e) == [st EXCEPT !.exc = e]
Called(st, call) == [st EXCEPT !.calls = Append(@, call)]

\* ------------------------------------------------------------- mongos.py
\* hostname.split("/")[0]
_hostname_from_hostport(hostname) == hostname[1]

\* the members get_shard_members computes from a listShards reply
ShardMembers(docs) == {_hostname_from_hostport(member.host) : member \in docs}

\* MongosConnection.get_shard_members: the contexts after its listShards
get_shard_members(st) == ListShards(st)

\* f"{shard_name}/{host:port,...}"
ShardUrl(shard_name, shard_hosts, shard_port) ==
    <<shard_name, [i \in 1 .. Len(shard_hosts) |-> <<shard_hosts[i], shard_port>>]>>

\* mutant: the membership test left out
AddShardSkips_never(shard_name, members) == FALSE

\* add_shard returns without a command when the shard is already a member
AddShardSkips(shard_name, members) == shard_name \in members

\* MongosConnection.add_shard
add_shard(st, shard_name, shard_hosts) ==
    LET shard_url == ShardUrl(shard_name, shard_hosts, MONGODB_PORT)
        Listed(s1) ==
            LET members == ShardMembers(s1.shards)
                s2 == Called(s1, [op |-> "add_shard", shard |-> shard_name,
                                  members |-> members, at |-> Len(s1.cmds)])
            IN IF s1.exc # NoExc THEN {s1}
               ELSE IF AddShardSkips(shard_name, members) THEN {s2}
               ELSE AddShardCommand(s2, shard_url)
    IN Bind(get_shard_members(st), Listed)

\* mutants: the test of the ignored shard inverted; the check left out
_is_any_draining_only_target(sc_status, ignore_shard) ==
    \E shard \in sc_status : IF shard.id = ignore_shard THEN DrainingFlag(shard) ELSE FALSE

_is_any_draining_never(sc_status, ignore_shard) == FALSE

\* mutant: the target is not ignored
_is_any_draining_with_target(sc_status, ignore_shard) ==
    \E shard \in sc_status : DrainingFlag(shard)

\* MongosConnection._is_any_draining
_is_any_draining(sc_status, ignore_shard) ==
    \E shard \in sc_status : IF shard.id # ignore_shard THEN DrainingFlag(shard) ELSE FALSE

\* MongosConnection.get_primary_shard
get_primary_shard == FALSE

\* MongosConnection.remove_shard
remove_shard(st, shard_name) ==
    LET Listed(s1) ==
            LET sc_status == s1.shards
                s2 == Called(s1, [op |-> "remove_shard", shard |-> shard_name,
                                  draining |-> Draining(sc_status),
                                  primary |-> s1.primary, at |-> Len(s1.cmds)])
            IN IF s1.exc # NoExc THEN {s1}
               ELSE IF _is_any_draining(sc_status, shard_name)
               THEN {Raise(s2, Exc("NotReadyError"))}
               ELSE IF get_primary_shard # FALSE
               THEN {Raise(s2, Exc("RemovePrimaryShardError"))}
               ELSE RemoveShardCommand(s2, shard_name)
    IN Bind(ListShards(st), Listed)

\* mutant: a shard that is not listed is reported as not draining
_is_shard_draining_absent_is_false(sc_status, shard_name) ==
    IF shard_name \in Ids(sc_status)
    THEN LET shard == Doc(sc_status, shard_name) IN
         IF "draining" \notin DOMAIN shard
         THEN [exc |-> Exc("ShardNotPlannedForRemovalError"), value |-> FALSE]
         ELSE [exc |-> NoExc, value |-> shard.draining]
    ELSE [exc |-> NoExc, value |-> FALSE]

\* MongosConnection._is_shard_draining: the value returned or the exception raised
_is_shard_draining(sc_status, shard_name) ==
    IF shard_name \in Ids(sc_status)
    THEN LET shard == Doc(sc_status, shard_name) IN
         IF "draining" \notin DOMAIN shard
         THEN [exc |-> Exc("ShardNotPlannedForRemovalError"), value |-> FALSE]
         ELSE [exc |-> NoExc, value |-> shard.draining]
    ELSE [exc |-> Exc("ShardNotInClusterError"), value |-> FALSE]

\* ------------------------------------- shards_interface.py: ShardingProvider
\* mutant: the departed relation is not left out
_get_shards_from_relations_all(rels, departed_shard_id) ==
    {_get_shard_name_from_relation(relation) : relation \in DOMAIN rels}

\* ShardingProvider._get_shards_from_relations
_get_shards_from_relations(rels, departed_shard_id) ==
    {_get_shard_name_from_relation(relation) :
        relation \in {r \in DOMAIN rels : r # departed_shard_id}}

\* ShardingProvider._get_shard_hosts: the private-address of every unit of the shard's relation
_get_shard_hosts(rels, shard_name) ==
    LET relation == CHOOSE r \in DOMAIN rels : _get_shard_name_from_relation(r) = shard_name
    IN [i \in 1 .. rels[relation] |-> UnitAddress(relation, i)]

\* mutant: a shard without hosts is added as well
AddSkipsShard_never(shard_hosts) == FALSE

\* add_shards skips a shard whose host list is empty
AddSkipsShard(shard_hosts) == Len(shard_hosts) = 0

RECURSIVE AddLoop(_, _, _)
\* the for loop of add_shards over relation_shards - cluster_shards, in any order
AddLoop(st, todo, rels) ==
    IF todo = {} \/ st.exc # NoExc THEN {st}
    ELSE UNION {
           LET shard_hosts == _get_shard_hosts(rels, shard)
               Rest(s1) == AddLoop(s1, todo \ {shard}, rels)
           IN IF AddSkipsShard(shard_hosts) THEN Rest(st)
              ELSE Bind(add_shard([st EXCEPT !.status = <<"Maintenance", "Adding shard", shard>>],
                                  shard, shard_hosts),
                        Rest)
           : shard \in todo}

\* the shards add_shards iterates over
AddTargets(relation_shards, cluster_shards) == relation_shards \ cluster_shards

\* ShardingProvider.add_shards
add_shards(st, rels, departed_shard_id) ==
    LET relation_shards == _get_shards_from_relations(rels, departed_shard_id)
        Listed(s1) ==
            LET cluster_shards == ShardMembers(s1.shards)
                s2 == Called(s1, [op |-> "add_shards", cluster_shards |-> cluster_shards,
                                  relation_shards |-> relation_shards,
                                  with_hosts |-> {n \in relation_shards :
                                                    Len(_get_shard_hosts(rels, n)) > 0}])
            IN IF s1.exc # NoExc THEN {s1}
               ELSE AddLoop(s2, AddTargets(relation_shards, cluster_shards), rels)
        Done(s3) == IF s3.exc # NoExc THEN {s3}
                    ELSE {Called([s3 EXCEPT !.status = <<"Active", "">>],
                                 [op |-> "add_shards returned"])}
    IN Bind(Bind(get_shard_members(st), Listed), Done)

\* remove_shards raises NotDrainedError when the shard is still a member after removeShard
\* mutant: the membership test after the command left out
StillInCluster_never(shard, members) == FALSE

StillInCluster(shard, members) == shard \in members

RECURSIVE RemoveLoop(_, _)
\* the for loop of remove_shards over cluster_shards - relation_shards, in any order
RemoveLoop(st, todo) ==
    IF todo = {} \/ st.exc # NoExc THEN {st}
    ELSE UNION {
           LET Check(s2) ==
                   IF s2.exc # NoExc THEN {s2}
                   ELSE IF StillInCluster(shard, ShardMembers(s2.shards))
                   THEN {Raise(s2, Exc("NotDrainedError"))}
                   ELSE RemoveLoop(s2, todo \ {shard})
               Removed(s1) == IF s1.exc # NoExc THEN {s1} ELSE Bind(get_shard_members(s1), Check)
           IN Bind(remove_shard([st EXCEPT !.status = <<"Maintenance", "Draining shard", shard>>],
                                shard),
                   Removed)
           : shard \in todo}

\* mutant: a member whose hosts are no longer those of its relation is removed as well
RemoveTargets_stale_hosts(cluster_shards, relation_shards) ==
    {n \in cluster_shards :
        \/ n \notin relation_shards
        \/ /\ n \in Ids(shards)
           /\ Doc(shards, n).host # ShardUrl(n, _get_shard_hosts(relations, n), MONGODB_PORT)}

\* mutant: the set difference left out
RemoveTargets_all(cluster_shards, relation_shards) == cluster_shards

\* the shards remove_shards iterates over
RemoveTargets(cluster_shards, relation_shards) == cluster_shards \ relation_shards

\* ShardingProvider.remove_shards
remove_shards(st, rels, departed_shard_id) ==
    LET relation_shards == _get_shards_from_relations(rels, departed_shard_id)
        Listed(s1) ==
            LET cluster_shards == ShardMembers(s1.shards)
                s2 == Called(s1, [op |-> "remove_shards", cluster_shards |-> cluster_shards,
                                  relation_shards |-> relation_shards])
            IN IF s1.exc # NoExc THEN {s1}
               ELSE RemoveLoop(s2, RemoveTargets(cluster_shards, relation_shards))
    IN Bind(get_shard_members(st), Listed)

\* ShardingProvider and ConfigServerRequirer are framework Objects without an attribute
\* `unit` (the unit is self.charm.unit): reading self.unit raises
SelfUnit == Exc("AttributeError")

\* ShardingProvider.pass_hook_checks: whether the checks pass, whether the event is
\* deferred, and the error that leaves it.  In the replication role the assignment to
\* self.unit.status raises before the status is set
pass_hook_checks(r, leader, initialised) ==
    IF r = "replication"
    THEN [pass |-> FALSE, defer |-> FALSE, status |-> NoStatus, raised |-> SelfUnit]
    ELSE IF r # "config-server"
    THEN [pass |-> FALSE, defer |-> FALSE, status |-> NoStatus, raised |-> NoExc]
    ELSE IF ~leader
    THEN [pass |-> FALSE, defer |-> FALSE, status |-> NoStatus, raised |-> NoExc]
    ELSE IF ~initialised
    THEN [pass |-> FALSE, defer |-> TRUE, status |-> NoStatus, raised |-> NoExc]
    ELSE [pass |-> TRUE, defer |-> FALSE, status |-> NoStatus, raised |-> NoExc]

\* mutant: the wrong error code is taken for the forbidden removal
IsForbiddenRemoval_other(e) == e.code = OtherErrCode

\* e.code == FORBIDDEN_REMOVAL_ERR_CODE
IsForbiddenRemoval(e) == e.code = FORBIDDEN_REMOVAL_ERR_CODE

\* mutant: NotReadyError is not caught
HandleRaised_not_ready_escapes(e) ==
    IF e = NoExc THEN [raised |-> NoExc, defers |-> 0]
    ELSE IF e.type = "NotDrainedError" THEN [raised |-> NoExc, defers |-> 1]
    ELSE IF e.type = "OperationFailure"
         THEN IF IsForbiddenRemoval(e)
              THEN [raised |-> Exc("RemoveLastShardError"), defers |-> 0]
              ELSE [raised |-> NoExc, defers |-> 1]
    ELSE IF IsPyMongoError(e) THEN [raised |-> NoExc, defers |-> 1]
    ELSE [raised |-> e, defers |-> 0]

\* the except clauses of _on_relation_event: the exception that escapes and the deferrals
HandleRaised(e) ==
    IF e = NoExc THEN [raised |-> NoExc, defers |-> 0]
    ELSE IF e.type = "NotDrainedError" THEN [raised |-> NoExc, defers |-> 1]
    ELSE IF e.type = "OperationFailure"
         THEN IF IsForbiddenRemoval(e)
              THEN [raised |-> Exc("RemoveLastShardError"), defers |-> 0]
              ELSE [raised |-> NoExc, defers |-> 1]
    ELSE IF IsPyMongoError(e) \/ e.type = "NotReadyError" THEN [raised |-> NoExc, defers |-> 1]
    ELSE [raised |-> e, defers |-> 0]

\* the try block of _on_relation_event: add_shards, then remove_shards
Reconcile(st, rels, departed_relation_id) ==
    LET Added(s1) == IF s1.exc # NoExc THEN {s1}
                     ELSE remove_shards(s1, rels, departed_relation_id)
    IN Bind(add_shards(st, rels, departed_relation_id), Added)

\* ----------------------------------- shards_interface.py: ConfigServerRequirer
\* self.charm.app.name of the shard unit
ThisApp == AllShardNames[1]

\* mutant: the negation left out
NotDraining_same(draining) == draining

\* drained = not draining
NotDraining(draining) == ~draining

NoRelation == 0
\* a write of `keys` to the application data of a relation, or to the application peer
\* data (relation NoRelation)
Write(bag, relation, keys) == [bag |-> bag, relation |-> relation, keys |-> keys]

\* ConfigServerRequirer.drained: the contexts it ends in, each with the value returned,
\* the application peer data it leaves and the writes it has made to them
drained(st, peer, shard_name) ==
    IF role # "shard"
    THEN {[st |-> st, value |-> PyBool(FALSE), peer |-> peer, writes |-> << >>]}
    ELSE IF ~is_leader
    THEN {[st |-> st, peer |-> peer, writes |-> << >>,
           value |-> JsonDumps(IF "drained" \in DOMAIN peer THEN PyStr(peer.drained)
                               ELSE PyBool(FALSE))]}
    ELSE {LET draining == _is_shard_draining(s1.shards, shard_name) IN
          IF s1.exc # NoExc
          THEN [st |-> s1, value |-> NoValue, peer |-> peer, writes |-> << >>]
          ELSE IF draining.exc # NoExc
          THEN [st |-> Raise(s1, draining.exc), value |-> NoValue, peer |-> peer,
                writes |-> << >>]
          ELSE [st |-> s1, value |-> PyBool(NotDraining(draining.value)),
                peer |-> [k \in {"drained"} |->
                            JsonDumps(PyBool(NotDraining(draining.value))).v],
                writes |-> <<Write("peer", NoRelation, {"drained"})>>]
          : s1 \in ListShards(st)}

\* ------------------------------------------------------ the event handler
ChangedEvent == [kind |-> "changed", relation |-> NoRelation]
BrokenEvent(r) == [kind |-> "broken", relation |-> r]
\* a deferred event at its re-run: the relation of a deferred relation-broken event is gone
DeferredEvent == [kind |-> "deferred", relation |-> NoRelation]

\* the context a handler run starts from
Start ==
    [shards |-> shards, primary |-> primary, cmds |-> <<>>, calls |-> <<>>,
     exc |-> NoExc, status |-> NoStatus]

\* mutant: a backup or restore in progress does not stop the handler
IsMaintenance_never(pbm_status) == FALSE

\* isinstance(pbm_status, MaintenanceStatus)
IsMaintenance(pbm_status) == pbm_status

\* ShardingProvider._on_relation_event: the runs the handler can make of an event
_on_relation_event(event) ==
    LET chk == pass_hook_checks(role, is_leader, db_initialised)
        departed_relation_id == IF event.kind = "broken" THEN event.relation ELSE NoRelation
    IN IF ~chk.pass
       THEN {[st |-> [Start EXCEPT !.status = chk.status],
              ran |-> FALSE, raised |-> chk.raised, defers |-> IF chk.defer THEN 1 ELSE 0]}
       ELSE IF IsMaintenance(pbm_maintenance)
       THEN {[st |-> Start, ran |-> FALSE, raised |-> NoExc, defers |-> 1]}
       ELSE {[st |-> s1, ran |-> TRUE, raised |-> HandleRaised(s1.exc).raised,
              defers |-> HandleRaised(s1.exc).defers] :
                s1 \in Reconcile(Start, relations, departed_relation_id)}

\* the framework runs the handler for an event; an event the handler defers is kept for
\* a re-run, and a re-run that does not defer again takes the event off the queue
Dispatch(event) ==
    \E res \in _on_relation_event(event) :
        /\ shards' = res.st.shards
        /\ deferred' = IF event = DeferredEvent
                       THEN (IF res.defers > 0 THEN deferred ELSE deferred - 1)
                       ELSE (IF res.defers > 0 THEN deferred + 1 ELSE deferred)
        /\ deferred' <= MaxDeferred
        /\ last' = [event |-> event, ran |-> res.ran, cmds |-> res.st.cmds,
                    calls |-> res.st.calls, exc |-> res.st.exc, raised |-> res.raised,
                    defers |-> res.defers, status |-> res.st.status, value |-> NoValue,
                    writes |-> << >>]
        /\ relations' = IF event.kind = "broken" /\ res.raised = NoExc
                        THEN [r \in DOMAIN relations \ {event.relation} |-> relations[r]]
                        ELSE relations
        /\ UNCHANGED <<primary, role, is_leader, db_initialised, pbm_maintenance, status,
                       app_peer_data, waiting, upgrade>>

\* relation-changed on the config-server
RelationChanged ==
    /\ DOMAIN relations # {}
    /\ Dispatch(ChangedEvent)

\* relation-broken for relation r; the relation is gone once the hook has ended
RelationBroken(r) ==
    /\ r \in DOMAIN relations
    /\ Dispatch(BrokenEvent(r))

\* a deferred event is emitted again (it is the handler of a config-server that has
\* deferred it)
RerunDeferred ==
    /\ deferred > 0 /\ role = "config-server"
    /\ Dispatch(DeferredEvent)

\* ------------------------------------------------------------ environment
NoLast == [event |-> [kind |-> "none", relation |-> NoRelation], ran |-> FALSE,
           cmds |-> <<>>, calls |-> <<>>, exc |-> NoExc, raised |-> NoExc, defers |-> 0,
           status |-> NoStatus, value |-> NoValue, writes |-> << >>]

\* the unit alone in its application, no member primary, no upgrade operation run
NoUpgrade == [units |-> {0}, primary |-> [app |-> "None", number |-> -1],
              log |-> [op |-> "none"]]

\* an environment step: no handler run has just ended
EnvStep ==
    /\ last' = NoLast
    /\ UNCHANGED <<db_initialised, pbm_maintenance, status, deferred, app_peer_data,
                   waiting, upgrade>>

\* a shard application is related to the config-server
RelationCreated(r) ==
    /\ r \notin DOMAIN relations
    /\ relations' = [x \in DOMAIN relations \cup {r} |-> IF x = r THEN 0 ELSE relations[x]]
    /\ UNCHANGED <<shards, primary, role, is_leader>> /\ EnvStep

\* a unit of the shard joins the relation and publishes its address
UnitJoined(r) ==
    /\ r \in DOMAIN relations /\ relations[r] < MaxHosts
    /\ relations' = [relations EXCEPT ![r] = @ + 1]
    /\ UNCHANGED <<shards, primary, role, is_leader>> /\ EnvStep

\* a unit of the shard leaves the relation
UnitDeparted(r) ==
    /\ r \in DOMAIN relations /\ relations[r] > 0
    /\ relations' = [relations EXCEPT ![r] = @ - 1]
    /\ UNCHANGED <<shards, primary, role, is_leader>> /\ EnvStep

\* the first database is created on shard s: s is the primary shard from now on
SetPrimary(s) ==
    /\ primary = None /\ s \in Ids(shards)
    /\ primary' = s
    /\ UNCHANGED <<shards, relations, role, is_leader>> /\ EnvStep

Init ==
    /\ shards = {}
    /\ primary = None
    /\ relations = << >>
    /\ role = "config-server"
    /\ is_leader = TRUE
    /\ db_initialised = TRUE
    /\ pbm_maintenance = FALSE
    /\ status = NoStatus
    /\ deferred = 0
    /\ app_peer_data = << >>
    /\ waiting = FALSE
    /\ upgrade = NoUpgrade
    /\ last = NoLast

Next ==
    \/ RelationChanged
    \/ \E r \in RelIds : RelationBroken(r)
    \/ RerunDeferred
    \/ \E r \in RelIds : RelationCreated(r)
    \/ \E r \in RelIds : UnitJoined(r)
    \/ \E r \in RelIds : UnitDeparted(r)
    \/ \E s \in Names : SetPrimary(s)

Spec == Init /\ [][Next]_vars

\* ------------------------------------------- direct calls of the library
\* what a direct call leaves in `last`
CallLog(kind, r, st, value) ==
    [event |-> [kind |-> kind, relation |-> r], ran |-> TRUE, cmds |-> st.cmds,
     calls |-> st.calls, exc |-> st.exc, raised |-> st.exc, defers |-> 0,
     status |-> st.status, value |-> value, writes |-> << >>]

\* MongosConnection.add_shard is called for the shard of relation r with k hosts
AddShardCalled(r, k) ==
    \E st \in add_shard(Start, _get_shard_name_from_relation(r),
                        [i \in 1 .. k |-> UnitAddress(r, i)]) :
        /\ shards' = st.shards
        /\ last' = CallLog("add_shard", r, st, NoValue)
        /\ UNCHANGED <<primary, relations, role, is_leader, db_initialised, pbm_maintenance,
                       status, deferred, app_peer_data, waiting, upgrade>>

\* ShardingProvider.add_shards is called with no departed relation
AddShardsCalled ==
    \E st \in add_shards(Start, relations, NoRelation) :
        /\ shards' = st.shards
        /\ last' = CallLog("add_shards", NoRelation, st, NoValue)
        /\ UNCHANGED <<primary, relations, role, is_leader, db_initialised, pbm_maintenance,
                       status, deferred, app_peer_data, waiting, upgrade>>

NextAddShard ==
    \/ Next
    \/ \E r \in RelIds : \E k \in 1 .. MaxHosts : AddShardCalled(r, k)
    \/ AddShardsCalled

\* the reconciler together with direct calls of add_shard and add_shards
SpecAddShard == Init /\ [][NextAddShard]_vars

\* --------------------------------------------------------- the shard unit
\* ConfigServerRequirer.drained is called by the shard unit for its own application
DrainedCalled ==
    \E res \in drained(Start, app_peer_data, ThisApp) :
        /\ app_peer_data' = res.peer
        /\ last' = [CallLog("drained", NoRelation, res.st, res.value) EXCEPT
                       !.writes = res.writes]
        /\ UNCHANGED <<shards, primary, relations, role, is_leader, db_initialised,
                       pbm_maintenance, status, deferred, waiting, upgrade>>

\* the config-server has added shard s to the cluster
ShardAdded(s) ==
    /\ s \notin Ids(shards)
    /\ shards' = RouterAddShard(shards, ShardUrl(s, <<UnitAddress(1, 1)>>, MONGODB_PORT))
    /\ UNCHANGED <<primary, relations, role, is_leader>> /\ EnvStep

\* a removeShard of the config-server for shard s has succeeded
ShardRemoved(s) ==
    /\ \E reply \in RouterRemoveShard(shards, primary, s) :
          reply.exc = NoExc /\ shards' = reply.shards
    /\ UNCHANGED <<primary, relations, role, is_leader>> /\ EnvStep

\* an administrator stops the draining of shard s: its draining flag is set to false
DrainStopped(s) ==
    /\ s \in Draining(shards)
    /\ shards' = (shards \ {Doc(shards, s)})
                 \cup {[id |-> s, host |-> Doc(shards, s).host, draining |-> FALSE]}
    /\ UNCHANGED <<primary, relations, role, is_leader>> /\ EnvStep

\* the leadership of the shard application changes
LeaderChanged ==
    /\ is_leader' = ~is_leader
    /\ UNCHANGED <<shards, primary, relations, role>> /\ EnvStep

InitShard ==
    /\ shards = {}
    /\ primary = None
    /\ relations = << >>
    /\ role \in Roles
    /\ is_leader \in BOOLEAN
    /\ db_initialised = TRUE
    /\ pbm_maintenance = FALSE
    /\ status = NoStatus
    /\ deferred = 0
    /\ app_peer_data = << >>
    /\ waiting = FALSE
    /\ upgrade = NoUpgrade
    /\ last = NoLast

NextShard ==
    \/ DrainedCalled
    \/ \E s \in Names : ShardAdded(s)
    \/ \E s \in Names : ShardRemoved(s)
    \/ \E s \in Names : DrainStopped(s)
    \/ LeaderChanged

\* a unit of a shard application polling the router
SpecShard == InitShard /\ [][NextShard]_vars

\* ------------------------- the shard unit: the wait loop of relation-broken
\* the truth value Python gives a value in a condition
Truthy(val) ==
    IF val.t = "bool" THEN val.v
    ELSE IF val.t = "str" THEN val.v # ""
    ELSE IF val.t = "list" THEN val.v # << >>
    ELSE FALSE

\* ConfigServerRequirer._on_relation_broken up to its loop
BrokenEntry ==
    IF role = "replication"
    THEN [enter |-> FALSE, defers |-> 0, raised |-> SelfUnit, status |-> status]
    ELSE IF role # "shard"
    THEN [enter |-> FALSE, defers |-> 0, raised |-> NoExc, status |-> status]
    ELSE IF ~db_initialised
    THEN [enter |-> FALSE, defers |-> 1, raised |-> NoExc, status |-> status]
    ELSE [enter |-> TRUE, defers |-> 0, raised |-> NoExc,
          status |-> <<"Maintenance", "Draining shard from cluster">>]

\* the handler runs for a relation-broken event, a deferred one when rerun
BrokenHandled(rerun) ==
    LET e == BrokenEntry IN
    /\ ~waiting
    /\ waiting' = e.enter
    /\ status' = e.status
    /\ deferred' = IF rerun THEN (IF e.defers > 0 THEN deferred ELSE deferred - 1)
                   ELSE deferred + e.defers
    /\ deferred' <= MaxDeferred
    /\ last' = [NoLast EXCEPT !.event = [kind |-> "shard-broken", relation |-> NoRelation],
                              !.ran = e.enter, !.raised = e.raised, !.exc = e.raised,
                              !.defers = e.defers, !.status = e.status]
    /\ UNCHANGED <<shards, primary, relations, role, is_leader, db_initialised,
                   pbm_maintenance, app_peer_data, upgrade>>

\* relation-broken on the shard unit
ShardRelationBroken == BrokenHandled(FALSE)

\* a deferred relation-broken event is emitted again on the shard unit (it is the
\* handler of a shard that has deferred it)
ShardRerunDeferred == deferred > 0 /\ role = "shard" /\ BrokenHandled(TRUE)

\* mutant: ShardNotPlannedForRemovalError ends the loop as well
LeavesLoop_not_planned(res) ==
    IF res.st.exc = NoExc THEN Truthy(res.value)
    ELSE res.st.exc.type \in {"ShardNotInClusterError", "ShardNotPlannedForRemovalError"}

\* `while not drained` and the `break` of the ShardNotInClusterError clause
LeavesLoop(res) ==
    IF res.st.exc = NoExc THEN Truthy(res.value)
    ELSE res.st.exc.type = "ShardNotInClusterError"

\* mutant: the ShardNotInClusterError clause records nothing
AfterPoll_no_record(res) ==
    [status |-> IF IsPyMongoError(res.st.exc)
                THEN <<"Blocked", "Failed to drain shard from cluster">> ELSE status,
     peer |-> res.peer,
     writes |-> res.writes,
     escapes |-> /\ res.st.exc # NoExc /\ ~IsPyMongoError(res.st.exc)
                 /\ res.st.exc.type \notin {"ShardNotInClusterError",
                                            "ShardNotPlannedForRemovalError"}]

\* what the except clauses of the loop leave behind
AfterPoll(res) ==
    [status |-> IF IsPyMongoError(res.st.exc)
                THEN <<"Blocked", "Failed to drain shard from cluster">> ELSE status,
     peer |-> IF res.st.exc.type = "ShardNotInClusterError" /\ is_leader
              THEN [k \in {"drained"} |-> JsonDumps(PyBool(TRUE)).v] ELSE res.peer,
     writes |-> IF res.st.exc.type = "ShardNotInClusterError" /\ is_leader
                THEN res.writes \o <<Write("peer", NoRelation, {"drained"})>>
                ELSE res.writes,
     escapes |-> /\ res.st.exc # NoExc /\ ~IsPyMongoError(res.st.exc)
                 /\ res.st.exc.type \notin {"ShardNotInClusterError",
                                            "ShardNotPlannedForRemovalError"}]

\* one iteration of the loop: the sleep has ended, drained() is called, and when the loop
\* is left the handler sets its final status and returns
Poll ==
    /\ waiting
    /\ \E res \in drained(Start, app_peer_data, ThisApp) :
         LET after == AfterPoll(res)
             leaves == LeavesLoop(res) IN
         /\ waiting' = (~leaves /\ ~after.escapes)
         /\ status' = IF leaves
                      THEN <<"Active", "Shard drained from cluster, ready for removal">>
                      ELSE after.status
         /\ app_peer_data' = after.peer
         /\ last' = [CallLog("poll", NoRelation, res.st, res.value) EXCEPT
                        !.raised = IF after.escapes THEN res.st.exc ELSE NoExc,
                        !.writes = after.writes]
    /\ UNCHANGED <<shards, primary, relations, role, is_leader, db_initialised,
                   pbm_maintenance, deferred, upgrade>>

\* the database of the shard unit is initialised
DbInitialised ==
    /\ ~db_initialised
    /\ db_initialised' = TRUE
    /\ last' = NoLast
    /\ UNCHANGED <<shards, primary, relations, role, is_leader, pbm_maintenance, status,
                   deferred, app_peer_data, waiting, upgrade>>

InitBroken ==
    /\ shards = {}
    /\ primary = None
    /\ relations = << >>
    /\ role \in Roles
    /\ is_leader \in BOOLEAN
    /\ db_initialised \in BOOLEAN
    /\ pbm_maintenance = FALSE
    /\ status = NoStatus
    /\ deferred = 0
    /\ app_peer_data = << >>
    /\ waiting = FALSE
    /\ upgrade = NoUpgrade
    /\ last = NoLast

NextBroken ==
    \/ ShardRelationBroken
    \/ ShardRerunDeferred
    \/ Poll
    \/ DbInitialised
    \/ \E s \in Names : ShardAdded(s)
    \/ \E s \in Names : ShardRemoved(s)
    \/ \E s \in Names : DrainStopped(s)
    \/ LeaderChanged

\* a shard unit handling relation-broken while the router changes
SpecBroken == InitBroken /\ [][NextBroken]_vars

\* ------------------- relation hooks on a unit of any role and leadership
KEYFILE_KEY == "key-file"
HOSTS_KEY == "host"
OPERATOR_PASSWORD_KEY == "operator-password"

\* mutant: the application data are written whoever the unit is
_update_relation_data_any_unit(relation_id, keys) ==
    IF relation_id \in DOMAIN relations
    THEN <<Write("relation", relation_id, keys)>> ELSE << >>

\* ShardingProvider._update_relation_data: the writes it makes to the application data
\* of relation relation_id
_update_relation_data(relation_id, keys) ==
    IF is_leader /\ relation_id \in DOMAIN relations
    THEN <<Write("relation", relation_id, keys)>> ELSE << >>

\* the writes of a loop `for relation in relations: _update_relation_data(relation.id, ..)`
RECURSIVE ForRelations(_, _)
ForRelations(ids, keys) ==
    IF ids = {} THEN << >>
    ELSE LET r == CHOOSE x \in ids : \A y \in ids : x <= y
         IN _update_relation_data(r, keys) \o ForRelations(ids \ {r}, keys)

\* ShardingProvider.update_credentials
update_credentials(key) == ForRelations(DOMAIN relations, {key})

\* ShardingProvider._update_mongos_hosts
_update_mongos_hosts ==
    IF role # "config-server" THEN << >> ELSE ForRelations(DOMAIN relations, {HOSTS_KEY})

\* ShardingProvider._on_relation_joined for relation r
_on_relation_joined(r) ==
    LET chk == pass_hook_checks(role, is_leader, db_initialised) IN
    IF ~chk.pass
    THEN [ran |-> FALSE, raised |-> chk.raised, defers |-> IF chk.defer THEN 1 ELSE 0,
          status |-> chk.status, writes |-> << >>]
    ELSE [ran |-> TRUE, raised |-> NoExc, defers |-> 0, status |-> NoStatus,
          writes |-> _update_relation_data(r, {OPERATOR_PASSWORD_KEY, KEYFILE_KEY,
                                               HOSTS_KEY})]

\* the framework runs _on_relation_joined for relation r, for a deferred event when rerun
JoinedHandled(r, rerun) ==
    LET res == _on_relation_joined(r) IN
    /\ r \in DOMAIN relations
    /\ deferred' = IF rerun THEN (IF res.defers > 0 THEN deferred ELSE deferred - 1)
                   ELSE deferred + res.defers
    /\ deferred' <= MaxDeferred
    /\ last' = [NoLast EXCEPT !.event = [kind |-> "joined", relation |-> r],
                              !.ran = res.ran, !.raised = res.raised,
                              !.defers = res.defers, !.status = res.status,
                              !.writes = res.writes]
    /\ UNCHANGED <<shards, primary, relations, role, is_leader, db_initialised,
                   pbm_maintenance, status, app_peer_data, waiting, upgrade>>

\* relation-joined on the config-server side of relation r
RelationJoined(r) == JoinedHandled(r, FALSE)

\* a deferred relation-joined event is emitted again (the count of deferred events does
\* not tell their kinds: a re-run of either kind is possible)
RerunDeferredJoined(r) == deferred > 0 /\ role = "config-server" /\ JoinedHandled(r, TRUE)

\* the charm calls update_credentials to pass a rotated password on
UpdateCredentialsCalled ==
    /\ last' = [NoLast EXCEPT !.event = [kind |-> "update_credentials",
                                         relation |-> NoRelation],
                              !.ran = TRUE,
                              !.writes = update_credentials(OPERATOR_PASSWORD_KEY)]
    /\ UNCHANGED <<shards, primary, relations, role, is_leader, db_initialised,
                   pbm_maintenance, status, deferred, app_peer_data, waiting, upgrade>>

\* the charm calls _update_mongos_hosts when its units change
UpdateMongosHostsCalled ==
    /\ last' = [NoLast EXCEPT !.event = [kind |-> "_update_mongos_hosts",
                                         relation |-> NoRelation],
                              !.ran = TRUE, !.writes = _update_mongos_hosts]
    /\ UNCHANGED <<shards, primary, relations, role, is_leader, db_initialised,
                   pbm_maintenance, status, deferred, app_peer_data, waiting, upgrade>>

\* a backup or a restore starts or ends: the status _get_pbm_status returns changes
PbmChanged ==
    /\ pbm_maintenance' = ~pbm_maintenance
    /\ last' = NoLast
    /\ UNCHANGED <<shards, primary, relations, role, is_leader, db_initialised, status,
                   deferred, app_peer_data, waiting, upgrade>>

\* seen from a shard unit: the config-server adds shard s to the cluster
ClusterShardAdded(s) == role = "shard" /\ ShardAdded(s)

\* a removeShard of the config-server for the shard of this unit has succeeded
ThisShardRemoved == role = "shard" /\ ShardRemoved(ThisApp)

InitHooks ==
    /\ shards = {}
    /\ primary = None
    /\ relations = << >>
    /\ role \in Roles
    /\ is_leader \in BOOLEAN
    /\ db_initialised \in BOOLEAN
    /\ pbm_maintenance = FALSE
    /\ status = NoStatus
    /\ deferred = 0
    /\ app_peer_data = << >>
    /\ waiting = FALSE
    /\ upgrade = NoUpgrade
    /\ last = NoLast

NextHooks ==
    \/ Next
    \/ \E r \in RelIds : RelationJoined(r)
    \/ \E r \in RelIds : RerunDeferredJoined(r)
    \/ UpdateCredentialsCalled
    \/ UpdateMongosHostsCalled
    \/ ShardRelationBroken
    \/ ShardRerunDeferred
    \/ Poll
    \/ DrainedCalled
    \/ DbInitialised
    \/ LeaderChanged
    \/ PbmChanged
    \/ \E s \in Names : ClusterShardAdded(s)
    \/ ThisShardRemoved

\* a unit of any role, leader or not, with or without an initialised database, handling
\* the hooks of both sides of the sharding relation
SpecHooks == InitHooks /\ [][NextHooks]_vars

\* ------------------------------------------------ removal of unwanted shards
\* a shard that is in the cluster and has no relation any more
ExtraShard == AllShardNames[MaxShards + 1]

\* the cluster holds the shard of every relation there has been; some relations are left,
\* and the relation event of the removal has been deferred
InitRemoval ==
    /\ shards = {[id |-> n, host |-> ShardUrl(n, <<UnitAddress(1, 1)>>, MONGODB_PORT)] :
                    n \in Names \cup {ExtraShard}}
    /\ primary = None
    /\ relations \in {[r \in S |-> 1] : S \in (SUBSET RelIds) \ {{}}}
    /\ role = "config-server"
    /\ is_leader = TRUE
    /\ db_initialised = TRUE
    /\ pbm_maintenance = FALSE
    /\ status = NoStatus
    /\ deferred = 1
    /\ app_peer_data = << >>
    /\ waiting = FALSE
    /\ upgrade = NoUpgrade
    /\ last = NoLast

NextRemoval ==
    \/ RerunDeferred
    \/ RelationChanged

\* the config-server removing the shards that are no longer desired, the relations fixed
SpecRemoval == InitRemoval /\ [][NextRemoval]_vars

\* ------------------------------------------------------ in-place upgrades
\* (src/events/upgrade.py)  The replica set of the unit, upgrade.units and
\* upgrade.primary, is changed by the environment; every call of the upgrade
\* manager is one action that leaves what it did in upgrade.log.
UnitIds == 0 .. MaxUnits - 1
ThisUnit == 0
NoUnitId == -1
\* unit.name, "<application>/<number>"
UnitName(n) == [app |-> "mongodb", number |-> n]
\* charm.primary when no member is primary
NoPrimary == [app |-> "None", number |-> NoUnitId]
\* int(unit.name.split("/")[-1])
UnitId(name) == name.number

PyList(s) == [t |-> "list", v |-> s]
\* a and b
PyAnd(a, b) == IF Truthy(a) THEN b ELSE a

ActiveStatus == <<"Active", "">>
CharmStatuses == {ActiveStatus, <<"Blocked", "">>}

\* every order in which a Python set can be iterated
RECURSIVE Orders(_)
Orders(S) ==
    IF S = {} THEN {<< >>}
    ELSE UNION {{<<x>> \o o : o \in Orders(S \ {x})} : x \in S}

\* mutant: the loop does not `continue` after it has found the primary
Appended_always(unit, prim) == TRUE

\* the units the loop appends to the stack: all but the primary
Appended(unit, prim) == unit # prim

\* mutant: the primary is put on the top of the stack
InsertPrimary_on_top(upgrade_stack, primary_unit_id) ==
    Append(upgrade_stack, primary_unit_id)

\* upgrade_stack.insert(0, primary_unit_id)
InsertPrimary(upgrade_stack, primary_unit_id) == <<primary_unit_id>> \o upgrade_stack

\* the loop of get_replica_set_upgrade_stack over the units in one order
RECURSIVE StackLoop(_, _, _, _)
StackLoop(order, prim, upgrade_stack, primary_unit_id) ==
    IF order = << >>
    THEN [upgrade_stack |-> upgrade_stack, primary_unit_id |-> primary_unit_id]
    ELSE LET unit == Head(order)
             unit_id == UnitId(unit) IN
         StackLoop(Tail(order), prim,
                   IF Appended(unit, prim) THEN Append(upgrade_stack, unit_id)
                   ELSE upgrade_stack,
                   IF unit = prim THEN unit_id ELSE primary_unit_id)

\* MongoDBUpgrade.get_replica_set_upgrade_stack: the lists it can return
get_replica_set_upgrade_stack(units, prim) ==
    {LET end == StackLoop(order, prim, << >>, NoUnitId) IN
     InsertPrimary(end.upgrade_stack, end.primary_unit_id)
     : order \in Orders({UnitName(u) : u \in units})}

\* MongoDBUpgrade.build_upgrade_stack
build_upgrade_stack(r, units, prim) ==
    IF r = "config-server" THEN {NoValue}
    ELSE IF r = "replication"
    THEN {PyList(s) : s \in get_replica_set_upgrade_stack(units, prim)}
    ELSE {NoValue}

\* mutant: the sharded-cluster check reports the cluster able to read and write
is_sharded_cluster_able_to_read_write_healthy == TRUE

\* MongoDBUpgrade.is_sharded_cluster_able_to_read_write
is_sharded_cluster_able_to_read_write == FALSE

\* a Python str is the sequence of its characters; the address of unit n is "1.n"
Digits == <<"0", "1", "2", "3", "4", "5", "6", "7", "8", "9">>
UnitIp(n) == <<"1", ".", Digits[n + 1]>>
\* charm._unit_ips
UnitIps(units) == {UnitIp(u) : u \in units}
\* mongod.primary(): the address of the primary, None when the set has none
PrimaryIp(prim) == IF prim = NoPrimary THEN << >> ELSE UnitIp(UnitId(prim))
\* set(s) of a str s: the set of its characters, each a str of length one
PySetOfStr(str) == {<<str[i]>> : i \in DOMAIN str}

\* what the scratch collection of a member holds when it is read: the written value,
\* another value, nothing (the write has not been replicated), or the member cannot be
\* reached
Found == {"value", "other", "empty", "unreachable"}
\* the primary holds what was written to it
FoundAt(host, primary_ip) ==
    IF host = primary_ip THEN {"value", "unreachable"} ELSE Found

\* MongoDBUpgrade.is_excepted_write_on_replica: query[0] of an empty result raises
is_excepted_write_on_replica(found) ==
    IF found = "unreachable" THEN [value |-> FALSE, exc |-> Exc("PyMongoError")]
    ELSE IF found = "empty" THEN [value |-> FALSE, exc |-> Exc("IndexError")]
    ELSE [value |-> found = "value", exc |-> NoExc]

\* mutant: the primary's address is taken out of the addresses that are read
SecondaryIps_without_primary(replica_ips, primary_ip) == replica_ips \ {primary_ip}

\* secondary_ips = replica_ips - set(primary_ip)
SecondaryIps(replica_ips, primary_ip) == replica_ips \ PySetOfStr(primary_ip)

\* mutant: the probe goes on to the next member after one that lacks the value
StopsAtMissing_never(read) == FALSE

\* `return False` inside the loop
StopsAtMissing(read) == ~read.value

\* the loop of is_replica_set_able_read_write over the members still to be read, in
\* every order and with everything a read can find; reads is what was read so far.
\* clear_tmp_collection is called before both returns; an error of a read leaves the
\* probe at once, the scratch collection still there
RECURSIVE ReadLoop(_, _, _)
ReadLoop(remaining, primary_ip, reads) ==
    IF remaining = {}
    THEN {[value |-> PyBool(TRUE), exc |-> NoExc, reads |-> reads, scratch |-> FALSE]}
    ELSE UNION {UNION {
        LET read == is_excepted_write_on_replica(found)
            now == Append(reads, [host |-> secondary_ip, found |-> found]) IN
        IF read.exc # NoExc
        THEN {[value |-> NoValue, exc |-> read.exc, reads |-> now,
               scratch |-> TRUE]}
        ELSE IF StopsAtMissing(read)
        THEN {[value |-> PyBool(FALSE), exc |-> NoExc, reads |-> now, scratch |-> FALSE]}
        ELSE ReadLoop(remaining \ {secondary_ip}, primary_ip, now)
        : found \in FoundAt(secondary_ip, primary_ip)} : secondary_ip \in remaining}

\* MongoDBUpgrade.is_replica_set_able_read_write: the runs the probe can make.  The
\* write to the primary can fail, nothing being written then, and always fails when the
\* set has no primary; scratch is whether the scratch collection exists when the probe
\* ends
is_replica_set_able_read_write(replica_ips, primary_ip) ==
    {[value |-> NoValue, exc |-> Exc("PyMongoError"), reads |-> << >>,
      scratch |-> FALSE, write |-> Exc("PyMongoError"),
      primary_ip |-> primary_ip, replica_ips |-> replica_ips]}
    \cup (IF primary_ip = << >> THEN {}
          ELSE {[value |-> run.value, exc |-> run.exc, reads |-> run.reads,
                 scratch |-> run.scratch, write |-> NoExc,
                 primary_ip |-> primary_ip, replica_ips |-> replica_ips]
                : run \in ReadLoop(SecondaryIps(replica_ips, primary_ip), primary_ip,
                                  << >>)})

\* what a caller sees of a run of a check: the boolean it returns or the error it raises
Outcome(b, exc) == [value |-> b, exc |-> exc]

\* MongoDBUpgrade.is_cluster_able_to_read_write: the outcomes it can have
is_cluster_able_to_read_write(r, units, prim) ==
    IF r = "shard" THEN {Outcome(FALSE, NoExc)}
    ELSE IF r = "config-server"
    THEN {Outcome(is_sharded_cluster_able_to_read_write, NoExc)}
    ELSE {Outcome(run.exc = NoExc /\ Truthy(run.value), run.exc) :
            run \in is_replica_set_able_read_write(UnitIps(units), PrimaryIp(prim))}

\* mutant: a syncing member is not noticed
are_nodes_healthy_ignores_sync(r, any_sync) ==
    IF r = "replication" THEN PyBool(TRUE) ELSE NoValue

\* MongoDBUpgrade.are_nodes_healthy: no return statement is reached unless the role is
\* replication
are_nodes_healthy(r, any_sync) ==
    IF r = "replication" THEN PyBool(~any_sync) ELSE NoValue

\* MongoDBUpgrade.is_cluster_healthy
is_cluster_healthy(r, any_sync, charm_status) ==
    IF r = "shard" THEN PyBool(FALSE)
    ELSE PyAnd(are_nodes_healthy(r, any_sync), PyBool(charm_status = ActiveStatus))

ClusterNotReadyError(cause) == [type |-> "ClusterNotReadyError", cause |-> cause]

\* mutant: the health check is left out
pre_upgrade_check_no_health(r, any_sync, charm_status, rw) ==
    IF r = "shard"
    THEN ClusterNotReadyError("Cannot run pre-upgrade check on shards")
    ELSE IF rw.exc # NoExc THEN rw.exc
    ELSE IF ~rw.value
    THEN ClusterNotReadyError("Cluster cannot read/write - please check logs")
    ELSE NoExc

\* MongoDBUpgrade.pre_upgrade_check: the exception it raises, NoExc when it returns; rw
\* is the outcome of is_cluster_able_to_read_write, whose error is not caught
pre_upgrade_check(r, any_sync, charm_status, rw) ==
    IF r = "shard"
    THEN ClusterNotReadyError("Cannot run pre-upgrade check on shards")
    ELSE IF ~Truthy(is_cluster_healthy(r, any_sync, charm_status))
    THEN ClusterNotReadyError("Cluster is not healthy")
    ELSE IF rw.exc # NoExc THEN rw.exc
    ELSE IF ~rw.value
    THEN ClusterNotReadyError("Cluster cannot read/write - please check logs")
    ELSE NoExc

\* mutant: one more attempt is made
StopAfterAttempt_one_more(attempt, n) == attempt > n

\* tenacity.stop_after_attempt(n)
StopAfterAttempt(attempt, n) == attempt >= n

\* the primaries the replica set can have
Observable(units) == {UnitName(u) : u \in units} \cup {NoPrimary}

NoStepDown == [attempts |-> 0, new_primary |-> NoPrimary, exc |-> NoExc]
NoCheck == [attempts |-> 0, exc |-> NoExc]

\* mutant: the handler goes on after the failed install
ReturnsOnSnapError_never == FALSE

\* the `return` of the except snap.SnapError clause
ReturnsOnSnapError == TRUE

\* mutant: every unit steps the primary down
StepsDown_always(unit_name, prim) == TRUE

\* if self.charm.unit.name == self.charm.primary
StepsDown(unit_name, prim) == unit_name = prim

\* mutant: every unit re-emits upgrade-changed
ReEmits_always(leader) == TRUE

\* if self.charm.unit.is_leader()
ReEmits(leader) == leader

NoLog == [op |-> "none"]

\* what a call of the upgrade manager leaves in upgrade.log
UpgradeLog(op, fields) ==
    [k \in {"op", "role", "leader", "units", "primary"} \cup DOMAIN fields |->
        IF k = "op" THEN op
        ELSE IF k = "role" THEN role
        ELSE IF k = "leader" THEN is_leader
        ELSE IF k = "units" THEN upgrade.units
        ELSE IF k = "primary" THEN upgrade.primary
        ELSE fields[k]]

\* _on_upgrade_granted is running: it sleeps between two attempts of a retried block
InHandler == upgrade.log.op = "upgrade_granted" /\ upgrade.log.pc # "done"

\* the log of a finished call is dropped by the next step of the environment
EnvLog == IF InHandler THEN upgrade.log ELSE NoLog

UpgradeUnchanged ==
    UNCHANGED <<shards, primary, relations, role, is_leader, db_initialised,
                pbm_maintenance, status, deferred, app_peer_data, waiting, last>>

\* the values the upgrade stack of the peer data can have: None before it is built,
\* then the members that are left, in some order
UpgradeStacks ==
    {NoValue} \cup {PyList(o) : o \in UNION {Orders(S) : S \in SUBSET upgrade.units}}

\* mutant: a stack that has not been built does not count as empty
idle_built_only(upgrade_stack) == upgrade_stack = PyList(<< >>)

\* MongoDBUpgrade.idle: not bool(self.upgrade_stack)
idle(upgrade_stack) == ~Truthy(upgrade_stack)

\* the idle property is read
IdleCalled ==
    /\ ~InHandler
    /\ \E upgrade_stack \in UpgradeStacks :
          upgrade' = [upgrade EXCEPT !.log = UpgradeLog("idle",
                         [upgrade_stack |-> upgrade_stack, value |-> idle(upgrade_stack)])]
    /\ UpgradeUnchanged

\* build_upgrade_stack is called
BuildUpgradeStackCalled ==
    /\ ~InHandler
    /\ \E value \in build_upgrade_stack(role, upgrade.units, upgrade.primary) :
          upgrade' = [upgrade EXCEPT !.log = UpgradeLog("build_upgrade_stack",
                                                        [value |-> value])]
    /\ UpgradeUnchanged

\* the pre-upgrade-check action runs pre_upgrade_check
PreUpgradeCheckCalled ==
    /\ ~InHandler
    /\ \E any_sync \in BOOLEAN, charm_status \in CharmStatuses,
          rw \in is_cluster_able_to_read_write(role, upgrade.units, upgrade.primary) :
          upgrade' = [upgrade EXCEPT !.log =
              UpgradeLog("pre_upgrade_check",
                         [any_sync |-> any_sync, charm_status |-> charm_status,
                          rw |-> rw,
                          exc |-> pre_upgrade_check(role, any_sync, charm_status, rw)])]
    /\ UpgradeUnchanged

\* is_cluster_healthy is called
IsClusterHealthyCalled ==
    /\ ~InHandler
    /\ \E any_sync \in BOOLEAN, charm_status \in CharmStatuses :
          upgrade' = [upgrade EXCEPT !.log =
              UpgradeLog("is_cluster_healthy",
                         [any_sync |-> any_sync, charm_status |-> charm_status,
                          value |-> is_cluster_healthy(role, any_sync, charm_status)])]
    /\ UpgradeUnchanged

\* is_replica_set_able_read_write is called
ProbeCalled ==
    /\ ~InHandler
    /\ \E run \in is_replica_set_able_read_write(UnitIps(upgrade.units),
                                                 PrimaryIp(upgrade.primary)) :
          upgrade' = [upgrade EXCEPT !.log = UpgradeLog("probe", run)]
    /\ UpgradeUnchanged

\* the log of a handler run that has just started
Granted(steps) ==
    [op |-> "upgrade_granted", role |-> role,
     was_primary |-> (UnitName(ThisUnit) = upgrade.primary),
     pc |-> "install", steps |-> steps, install |-> NoExc, old_primary |-> NoPrimary,
     stepdown |-> NoStepDown, check |-> NoCheck, raised |-> NoExc]

\* _on_upgrade_granted after install_snap_packages has returned, up to the first retried
\* block: the primary is stepped down and the re-election awaited, every other unit
\* restarts its services and runs the post-upgrade check
Installed(log) ==
    IF StepsDown(UnitName(ThisUnit), upgrade.primary)
    THEN [units |-> upgrade.units, primary |-> NoPrimary,
          log |-> [log EXCEPT !.pc = "reelection",
                              !.steps = Append(@, "step_down_primary"),
                              !.old_primary = upgrade.primary]]
    ELSE [upgrade EXCEPT !.log = [log EXCEPT !.pc = "check",
                                             !.steps = Append(@, "restart_charm_services")]]

\* _on_upgrade_granted starts: the services are stopped and the package is installed,
\* which can fail with SnapError
UpgradeGranted ==
    /\ ~InHandler
    /\ LET log == Granted(<<"stop_charm_services", "install_snap_packages">>)
           failed == [log EXCEPT !.steps = Append(@, "set_unit_failed"),
                                 !.install = Exc("SnapError")]
       IN \/ upgrade' = Installed(log)
          \/ upgrade' = IF ReturnsOnSnapError
                        THEN [upgrade EXCEPT !.log = [failed EXCEPT !.pc = "done"]]
                        ELSE Installed(failed)
    /\ UpgradeUnchanged

\* one attempt of the retried block of step_down_primary_and_wait_reelection: it raises
\* when new_primary != old_primary; the last attempt re-raises out of the handler, and
\* an attempt that does not raise lets the handler go on to restart the services
ReelectionAttempt ==
    /\ InHandler /\ upgrade.log.pc = "reelection"
    /\ LET log == upgrade.log
           attempt == log.stepdown.attempts + 1
           new_primary == upgrade.primary
           raises == new_primary # log.old_primary
           sd == [attempts |-> attempt, new_primary |-> new_primary,
                  exc |-> IF raises THEN Exc("FailedToElectNewPrimaryError") ELSE NoExc]
       IN upgrade' = [upgrade EXCEPT !.log =
            IF ~raises
            THEN [log EXCEPT !.stepdown = sd, !.pc = "check",
                             !.steps = Append(@, "restart_charm_services")]
            ELSE IF StopAfterAttempt(attempt, STEP_DOWN_ATTEMPTS)
            THEN [log EXCEPT !.stepdown = sd, !.pc = "done", !.raised = sd.exc]
            ELSE [log EXCEPT !.stepdown = sd]]
    /\ UpgradeUnchanged

\* one attempt of post_upgrade_check and, when it was the last one, the end of the
\* handler: the unit is marked completed and the leader re-emits upgrade-changed, or the
\* ClusterNotReadyError of the last attempt marks the unit failed.  An attempt in which
\* the probe itself raises is retried like any other, and the error of the last attempt
\* is re-raised past the except ClusterNotReadyError clause, out of the handler
PostUpgradeAttempt ==
    /\ InHandler /\ upgrade.log.pc = "check"
    /\ \E rw \in is_cluster_able_to_read_write(role, upgrade.units, upgrade.primary) :
         LET log == upgrade.log
             attempt == log.check.attempts + 1
             able == rw.exc = NoExc /\ rw.value
             chk == [attempts |-> attempt,
                     exc |-> IF able THEN NoExc
                             ELSE IF rw.exc # NoExc THEN rw.exc
                             ELSE ClusterNotReadyError("Cluster cannot read/write")]
             started == IF attempt = 1 THEN Append(log.steps, "post_upgrade_check")
                        ELSE log.steps
         IN upgrade' = [upgrade EXCEPT !.log =
              IF able
              THEN [log EXCEPT !.check = chk, !.pc = "done",
                               !.steps = started \o <<"set_unit_completed">> \o
                                   (IF ReEmits(is_leader) THEN <<"on_upgrade_changed">>
                                    ELSE << >>)]
              ELSE IF ~StopAfterAttempt(attempt, POST_UPGRADE_ATTEMPTS)
              THEN [log EXCEPT !.check = chk, !.steps = started]
              ELSE IF chk.exc.type = "ClusterNotReadyError"
              THEN [log EXCEPT !.check = chk, !.pc = "done",
                               !.steps = Append(started, "set_unit_failed")]
              ELSE [log EXCEPT !.check = chk, !.pc = "done", !.steps = started,
                               !.raised = chk.exc]]
    /\ UpgradeUnchanged

\* a peer unit joins the replica set
PeerJoined(u) ==
    /\ ~InHandler
    /\ u \notin upgrade.units
    /\ upgrade' = [upgrade EXCEPT !.units = @ \cup {u}, !.log = EnvLog]
    /\ UpgradeUnchanged

\* a peer unit leaves the replica set (no unit is added or removed while the handler
\* runs); the set has no primary when it was the primary
PeerDeparted(u) ==
    /\ ~InHandler
    /\ u \in upgrade.units /\ u # ThisUnit
    /\ upgrade' = [upgrade EXCEPT !.units = @ \ {u}, !.log = EnvLog,
                                  !.primary = IF @ = UnitName(u) THEN NoPrimary ELSE @]
    /\ UpgradeUnchanged

\* the replica set elects member p, or loses its primary
PrimaryChanged(p) ==
    /\ p \in Observable(upgrade.units) /\ p # upgrade.primary
    /\ upgrade' = [upgrade EXCEPT !.primary = p, !.log = EnvLog]
    /\ UpgradeUnchanged

\* the leadership of the application changes
UpgradeLeaderChanged ==
    /\ is_leader' = ~is_leader
    /\ upgrade' = [upgrade EXCEPT !.log = EnvLog]
    /\ UNCHANGED <<shards, primary, relations, role, db_initialised, pbm_maintenance,
                   status, deferred, app_peer_data, waiting, last>>

InitUpgrade ==
    /\ shards = {}
    /\ primary = None
    /\ relations = << >>
    /\ role \in Roles
    /\ is_leader \in BOOLEAN
    /\ db_initialised = TRUE
    /\ pbm_maintenance = FALSE
    /\ status = NoStatus
    /\ deferred = 0
    /\ app_peer_data = << >>
    /\ waiting = FALSE
    /\ upgrade = NoUpgrade
    /\ last = NoLast

NextUpgrade ==
    \/ BuildUpgradeStackCalled
    \/ IdleCalled
    \/ PreUpgradeCheckCalled
    \/ IsClusterHealthyCalled
    \/ ProbeCalled
    \/ UpgradeGranted
    \/ ReelectionAttempt
    \/ PostUpgradeAttempt
    \/ \E u \in UnitIds : PeerJoined(u)
    \/ \E u \in UnitIds : PeerDeparted(u)
    \/ \E p \in Observable(UnitIds) : PrimaryChanged(p)
    \/ UpgradeLeaderChanged

\* a unit of a replica set, a config-server or a shard running the upgrade manager
SpecUpgrade == InitUpgrade /\ [][NextUpgrade]_vars

\* ------------------------------------------------------------ properties
RemoveShardCalls == {i \in DOMAIN last.calls : last.calls[i].op = "remove_shard"}
Issued(cmd) == {i \in DOMAIN last.cmds : last.cmds[i].cmd = cmd}

\* C1: no removeShard command is issued for the primary shard; a remove_shard call whose
\* target is the primary shard raises RemovePrimaryShardError
C1_PrimaryShardNeverRemoved ==
    /\ \A i \in Issued("removeShard") : last.cmds[i].shard # last.cmds[i].primary
    /\ \A i \in RemoveShardCalls :
          (last.calls[i].shard = last.calls[i].primary
             /\ last.calls[i].draining \subseteq {last.calls[i].shard})
          => last.exc = Exc("RemovePrimaryShardError")

\* C2: a remove_shard call that finds a shard other than its target draining raises
\* NotReadyError and no removeShard command follows it
C2_OtherDrainingBlocksRemoval ==
    \A i \in RemoveShardCalls :
        last.calls[i].draining \ {last.calls[i].shard} # {}
        => /\ last.exc = Exc("NotReadyError")
           /\ i = Len(last.calls)
           /\ \A j \in Issued("removeShard") : j <= last.calls[i].at

C2_Witness ==
    \E i \in RemoveShardCalls :
        /\ last.calls[i].draining \ {last.calls[i].shard} # {}
        /\ last.raised = NoExc /\ last.defers = 1

\* C3: at most one shard of the cluster is draining
C3_AtMostOneDraining == Cardinality(Draining(shards)) <= 1

C3_Witness ==
    /\ Cardinality(Draining(shards)) = 1
    /\ \E i \in RemoveShardCalls : last.calls[i].shard \notin Draining(shards)
    /\ last.exc = Exc("NotReadyError")

\* the record add_shards / remove_shards logged in the last run (it made no such call
\* when the listShards at its start failed)
CallsOf(op) == {i \in DOMAIN last.calls : last.calls[i].op = op}
ShardsOf(cmd) == {last.cmds[i].shard : i \in Issued(cmd)}
\* the shards one add_shards pass has to add
Due(c) == (c.relation_shards \ c.cluster_shards) \cap c.with_hosts

\* C4: one add_shards pass sends addShard only for names of D \ A with a non-empty host
\* list, at most once each, and for every one of them when the pass returns; a name with
\* an empty host list gets no command and no error; nothing is added when D is within A
C4_AddsExactlyTheMissingShards ==
    \A i \in CallsOf("add_shards") :
        LET c == last.calls[i] IN
        /\ ShardsOf("addShard") \subseteq Due(c)
        /\ Cardinality(Issued("addShard")) = Cardinality(ShardsOf("addShard"))
        /\ CallsOf("add_shards returned") # {} => ShardsOf("addShard") = Due(c)
        /\ Due(c) = {} => CallsOf("add_shards returned") # {}
        /\ c.relation_shards \subseteq c.cluster_shards => Issued("addShard") = {}

C4_Witness ==
    \E i \in CallsOf("add_shards") :
        /\ Due(last.calls[i]) # {}
        /\ (last.calls[i].relation_shards \ last.calls[i].cluster_shards)
             \ last.calls[i].with_hosts # {}
        /\ CallsOf("add_shards returned") # {}
        /\ ShardsOf("addShard") \subseteq Ids(shards)

\* C5: a remove_shards pass calls remove_shard only for shards of the cluster that are not
\* desired; after a removeShard that succeeded, a shard still listed ends the pass with
\* NotDrainedError and a shard no longer listed raises nothing
C5_RemovesOnlyExtraShards ==
    \A i \in CallsOf("remove_shards") :
        LET c == last.calls[i] IN
        /\ \A k \in RemoveShardCalls :
              last.calls[k].shard \in c.cluster_shards \ c.relation_shards
        /\ ShardsOf("removeShard") \subseteq c.cluster_shards \ c.relation_shards
        /\ \A j \in Issued("removeShard") :
              (last.cmds[j].exc = NoExc /\ j + 1 \in DOMAIN last.cmds
                 /\ last.cmds[j + 1].exc = NoExc)
              => IF last.cmds[j].shard \in ShardMembers(last.cmds[j + 1].docs)
                 THEN last.exc = Exc("NotDrainedError") /\ j + 1 = Len(last.cmds)
                 ELSE j + 1 = Len(last.cmds) => last.exc = NoExc

C5_Witness ==
    \E i \in CallsOf("remove_shards") : \E j \in Issued("removeShard") :
        /\ last.calls[i].relation_shards # {}
        /\ last.cmds[j].exc = NoExc /\ j + 1 = Len(last.cmds)
        /\ last.cmds[j].shard \notin ShardMembers(last.cmds[j + 1].docs)
        /\ last.exc = NoExc

\* C6: a removeShard command that fails with code 20 is the last command of the run, which
\* raises RemoveLastShardError and does not defer the event
C6_ForbiddenRemovalIsFatal ==
    \A j \in Issued("removeShard") :
        last.cmds[j].exc = OperationFailure(FORBIDDEN_REMOVAL_ERR_CODE)
        => /\ last.raised = Exc("RemoveLastShardError")
           /\ last.defers = 0
           /\ j = Len(last.cmds)

C6_Witness ==
    \E j \in Issued("removeShard") :
        /\ last.cmds[j].exc = OperationFailure(FORBIDDEN_REMOVAL_ERR_CODE)
        /\ Cardinality(shards) = 1
        /\ last.raised = Exc("RemoveLastShardError")

\* C7: a run that ends in NotDrainedError, NotReadyError or a PyMongoError other than an
\* OperationFailure with code 20 defers the event once and lets nothing escape; an
\* OperationFailure with code 20 escapes as RemoveLastShardError without a deferral; a run
\* without an error neither defers nor raises
C7_RetryDistinctFromFatal ==
    last.ran =>
        /\ (last.exc.type \in {"NotDrainedError", "NotReadyError"}
              \/ (IsPyMongoError(last.exc)
                    /\ last.exc # OperationFailure(FORBIDDEN_REMOVAL_ERR_CODE)))
           => (last.defers = 1 /\ last.raised = NoExc)
        /\ last.exc = OperationFailure(FORBIDDEN_REMOVAL_ERR_CODE)
           => (last.raised = Exc("RemoveLastShardError") /\ last.defers = 0)
        /\ last.exc = NoExc => (last.defers = 0 /\ last.raised = NoExc)
        /\ last.raised \in {NoExc, Exc("RemoveLastShardError")}

C7_Witness ==
    /\ last.ran
    /\ last.exc = OperationFailure(OtherErrCode)
    /\ last.defers = 1 /\ last.raised = NoExc
    /\ deferred > 0

\* C8: an add_shard call for a shard that is already a member sends no addShard command
\* and raises nothing; a second add_shards pass right after one that returned, with the
\* relations unchanged, sends no addShard command and leaves the cluster as it is
C8_AddShardIdempotent ==
    /\ [](\A i \in CallsOf("add_shard") :
            last.calls[i].shard \in last.calls[i].members
            => /\ \A j \in Issued("addShard") :
                     last.cmds[j].shard = last.calls[i].shard => j <= last.calls[i].at
               /\ last.calls[i].at = Len(last.cmds) => last.exc = NoExc)
    /\ [][(/\ last.event.kind = "add_shards" /\ last.exc = NoExc
           /\ last'.event.kind = "add_shards" /\ last'.exc = NoExc
           /\ relations' = relations)
          => (/\ shards' = shards
              /\ \A j \in DOMAIN last'.cmds : last'.cmds[j].cmd # "addShard")]_vars

C8_Witness ==
    /\ last.event.kind = "add_shard"
    /\ \E i \in CallsOf("add_shard") : last.calls[i].shard \in last.calls[i].members
    /\ last.exc = NoExc

\* a call of drained by the leader of a shard whose listShards succeeded
DrainedByLeader ==
    /\ last.event.kind = "drained" /\ role = "shard" /\ is_leader
    /\ last.cmds # <<>> /\ last.cmds[1].exc = NoExc
Listing == last.cmds[1].docs
ThisListed == ThisApp \in Ids(Listing)
Returned(b) == last.exc = NoExc /\ last.value = PyBool(b)

\* C9 as stated: drained returns true if and only if the shard is not listed
C9_TrueIffAbsent == DrainedByLeader => (Returned(TRUE) <=> ~ThisListed)

\* C9: drained returns true if and only if the shard is listed with a draining flag that is
\* false; it raises ShardNotInClusterError if and only if the shard is not listed
C9_TrueIffListedNotDraining ==
    DrainedByLeader =>
        /\ Returned(TRUE) <=> (ThisListed /\ "draining" \in DOMAIN Doc(Listing, ThisApp)
                                 /\ ~DrainingFlag(Doc(Listing, ThisApp)))
        /\ last.exc = Exc("ShardNotInClusterError") <=> ~ThisListed

C9_Witness ==
    /\ DrainedByLeader /\ ~ThisListed /\ Listing # {}
    /\ last.exc = Exc("ShardNotInClusterError")

Polled == last.event.kind = "poll"
RetryErrors == PyMongoErrorTypes \cup {"ShardNotPlannedForRemovalError"}

\* C11: in the wait loop of relation-broken on the shard, a poll that ends in
\* ShardNotPlannedForRemovalError or in a PyMongoError leaves the handler in the loop,
\* where it polls again (a PyMongoError also sets the Blocked status); the loop is left
\* only by a poll that reports the shard drained or raises ShardNotInClusterError.
C11_LoopOnlyLeftWhenDrainedOrAbsent ==
    [][(waiting /\ last'.event.kind = "poll") =>
          /\ (last'.exc.type \in RetryErrors => waiting' /\ last'.raised = NoExc)
          /\ (IsPyMongoError(last'.exc) =>
                  status' = <<"Blocked", "Failed to drain shard from cluster">>)
          /\ (~waiting' => \/ (last'.exc = NoExc /\ Truthy(last'.value))
                           \/ last'.exc.type = "ShardNotInClusterError")]_vars

\* a poll has ended in ShardNotPlannedForRemovalError and the handler is still in the loop
C11_Witness ==
    Polled /\ waiting /\ last.exc.type = "ShardNotPlannedForRemovalError"

\* ---- C12
Built == upgrade.log.op = "build_upgrade_stack" /\ upgrade.log.value.t = "list"
BuiltStack == upgrade.log.value.v
\* a member of the replica set was primary when the stack was built
BuiltWithPrimary == Built /\ upgrade.log.primary \in {UnitName(u) : u \in upgrade.log.units}
Positions(stack, id) == {i \in DOMAIN stack : stack[i] = id}

\* C12: a stack built by build_upgrade_stack on a replica set that has a primary holds
\* the primary's id at index 0 of the returned list (the bottom of the stack) and holds
\* it exactly once.
C12_PrimaryAtBottomOnce ==
    BuiltWithPrimary =>
        /\ BuiltStack # << >>
        /\ Positions(BuiltStack, UnitId(upgrade.log.primary)) = {1}

\* a stack was built for three members, one of them the primary
C12_Witness ==
    BuiltWithPrimary /\ Cardinality(upgrade.log.units) = 3 /\ Len(BuiltStack) = 3

\* ---- C13
\* the order in which the members of the stack are upgraded when the list is read
\* front first
FrontFirst(stack) == stack
\* the stack lists every member exactly once
ListsEveryMember(stack, units) ==
    /\ Len(stack) = Cardinality(units)
    /\ {stack[i] : i \in DOMAIN stack} = units

\* C13 as stated: read front first, the returned stack has the primary as its last
\* element, every other member before it.
C13_PrimaryLastFrontFirst ==
    BuiltWithPrimary /\ Cardinality(upgrade.log.units) > 1 =>
        LET order == FrontFirst(BuiltStack) IN
        order[Len(order)] = UnitId(upgrade.log.primary)

\* C13 amended: the returned list holds every member once, the primary as its FIRST
\* element (index 0, the bottom of the stack) and every other member after it, so that
\* the primary is the last to be taken when members are taken from the end of the list.
C13_PrimaryFirstOthersAfter ==
    BuiltWithPrimary =>
        /\ ListsEveryMember(BuiltStack, upgrade.log.units)
        /\ \A i \in DOMAIN BuiltStack :
              BuiltStack[i] # UnitId(upgrade.log.primary) => i > 1
        /\ BuiltStack[1] = UnitId(upgrade.log.primary)

\* the stack [0, 1, 2] was built for the members 0 (primary), 1 and 2
C13_Witness ==
    /\ BuiltWithPrimary
    /\ upgrade.log.primary = UnitName(0)
    /\ BuiltStack = <<0, 1, 2>>

\* ---- C14
GrantedLog == upgrade.log.op = "upgrade_granted"
Step(name) == {i \in DOMAIN upgrade.log.steps : upgrade.log.steps[i] = name}
\* step_down_primary_and_wait_reelection has returned normally
ReelectionReturned ==
    GrantedLog /\ upgrade.log.stepdown.attempts > 0 /\ upgrade.log.pc # "reelection"
    /\ upgrade.log.raised = NoExc
\* step_down_primary_and_wait_reelection has failed
ReelectionFailed ==
    GrantedLog /\ upgrade.log.raised.type = "FailedToElectNewPrimaryError"

\* C14: step_down_primary_and_wait_reelection returns normally only after an attempt
\* has observed a primary different from the old one, and fails with
\* FailedToElectNewPrimaryError only when the observed primary was still the old one
\* on its last, 30th, attempt.
C14_ReturnsOnlyOnNewPrimary ==
    /\ ReelectionReturned =>
          upgrade.log.stepdown.new_primary # upgrade.log.old_primary
    /\ ReelectionFailed =>
          /\ upgrade.log.stepdown.attempts = STEP_DOWN_ATTEMPTS
          /\ upgrade.log.stepdown.new_primary = upgrade.log.old_primary

\* ---- C15
HandlerDone == GrantedLog /\ upgrade.log.pc = "done"
InstallFailed == upgrade.log.install # NoExc
CheckExhausted == upgrade.log.check.exc # NoExc
FatalFailure == InstallFailed \/ ReelectionFailed \/ CheckExhausted

\* C15: a handling of the upgrade grant that ends in a fatal failure (install failure,
\* failed re-election, exhausted post-upgrade check) has called set_unit_failed and has
\* not called set_unit_completed.
C15_FatalFailureMarksFailed ==
    HandlerDone /\ FatalFailure =>
        /\ Step("set_unit_failed") # {}
        /\ Step("set_unit_completed") = {}

\* ---- C16
\* the steps of the handler in the order the claim gives them
StepOrder ==
    <<"stop_charm_services", "install_snap_packages", "step_down_primary",
      "restart_charm_services", "post_upgrade_check", "set_unit_completed">>
Range(s) == {s[i] : i \in DOMAIN s}
Rank(name) == CHOOSE i \in DOMAIN StepOrder : StepOrder[i] = name
Ordered(steps) ==
    \A i, j \in DOMAIN steps :
        (i < j /\ steps[i] \in Range(StepOrder) /\ steps[j] \in Range(StepOrder)) =>
            Rank(steps[i]) < Rank(steps[j])

\* C16: the handler of the upgrade grant calls stop, install, step-down, restart,
\* post-upgrade check and set_unit_completed in this order, each at most once and each
\* only after all the earlier ones it makes; it steps down only when the unit was the
\* primary, and it restarts and checks only after an install that succeeded.
C16_StepsInOrder ==
    GrantedLog =>
        /\ Ordered(upgrade.log.steps)
        /\ SubSeq(upgrade.log.steps, 1, 2) = SubSeq(StepOrder, 1, 2)
        /\ Step("step_down_primary") # {} => upgrade.log.was_primary
        /\ upgrade.log.was_primary /\ ~InstallFailed => Step("step_down_primary") # {}
        /\ Step("restart_charm_services") \cup Step("post_upgrade_check") # {} =>
              ~InstallFailed
        /\ Step("post_upgrade_check") # {} => Step("restart_charm_services") # {}
        /\ Step("set_unit_completed") # {} => Step("post_upgrade_check") # {}

\* a unit that was the primary has gone through all six steps
C16_Witness ==
    HandlerDone /\ upgrade.log.steps = StepOrder

\* ---- C17
\* C17: when install_snap_packages fails, the handler marks the unit failed and ends:
\* it issues no step-down, does not restart the services, runs no post-upgrade check,
\* marks nothing completed and does not re-emit upgrade-changed.
C17_InstallFailureStopsHandler ==
    GrantedLog /\ InstallFailed =>
        /\ upgrade.log.pc = "done"
        /\ upgrade.log.steps =
              <<"stop_charm_services", "install_snap_packages", "set_unit_failed">>
        /\ upgrade.log.stepdown = NoStepDown /\ upgrade.log.check = NoCheck

\* the install has failed on a unit that was the primary and is the leader
C17_Witness ==
    HandlerDone /\ InstallFailed /\ upgrade.log.was_primary /\ is_leader

\* ---- C18
\* C18: post_upgrade_check makes at most 20 attempts; it goes on to a next attempt only
\* after an attempt that failed, an attempt that finds the cluster able to read and
\* write ends it with the unit marked completed, and when the 20th attempt fails as well
\* the unit is marked failed, not completed, its services having been restarted before
\* the first attempt.
C18_BoundedVerification ==
    GrantedLog =>
        /\ upgrade.log.check.attempts <= POST_UPGRADE_ATTEMPTS
        /\ (upgrade.log.pc = "check" /\ upgrade.log.check.attempts > 0) =>
              upgrade.log.check.exc # NoExc
        /\ (upgrade.log.check.attempts > 0 /\ upgrade.log.check.exc = NoExc) =>
              HandlerDone /\ Step("set_unit_completed") # {} /\ Step("set_unit_failed") = {}
        /\ (HandlerDone /\ CheckExhausted) =>
              /\ upgrade.log.check.attempts = POST_UPGRADE_ATTEMPTS
              /\ Step("set_unit_failed") # {} /\ Step("set_unit_completed") = {}
              /\ \E i \in Step("restart_charm_services") :
                    \A j \in Step("post_upgrade_check") \cup Step("set_unit_failed") : i < j

\* all 20 attempts of the post-upgrade check have failed on a replica set
C18_Witness ==
    /\ HandlerDone /\ CheckExhausted /\ upgrade.log.role = "replication"
    /\ upgrade.log.check.attempts = POST_UPGRADE_ATTEMPTS

\* ---- C19
ReEmitted == Step("on_upgrade_changed") # {}

\* C19: upgrade-changed is re-emitted only by a unit that is the leader at that moment
\* and only after set_unit_completed; a handling in which the unit failed at any step
\* (install, re-election, post-upgrade check) never re-emits it.
C19_PropagationOnlyAfterCompletion ==
    /\ [](GrantedLog /\ ReEmitted =>
             /\ \A i \in Step("on_upgrade_changed") :
                   \E j \in Step("set_unit_completed") : j < i
             /\ ~FatalFailure /\ Step("set_unit_failed") = {})
    /\ [](HandlerDone /\ FatalFailure => ~ReEmitted)
    /\ [][(upgrade'.log.op = "upgrade_granted" /\ "on_upgrade_changed" \in
               {upgrade'.log.steps[i] : i \in DOMAIN upgrade'.log.steps}
           /\ ~(GrantedLog /\ ReEmitted)) => is_leader]_vars

\* the leader has completed its upgrade and re-emitted upgrade-changed
C19_Witness ==
    HandlerDone /\ ReEmitted /\ is_leader /\ Step("set_unit_completed") # {}

\* ---- C20
PreChecked == upgrade.log.op = "pre_upgrade_check"

\* C20: pre_upgrade_check raises ClusterNotReadyError when the role is shard, when
\* is_cluster_healthy is false or when is_cluster_able_to_read_write is false, and
\* returns normally exactly when none of the three holds.
C20_PreCheckRaisesIffNotReady ==
    PreChecked =>
        LET log == upgrade.log
            not_ready ==
                \/ log.role = "shard"
                \/ ~Truthy(is_cluster_healthy(log.role, log.any_sync, log.charm_status))
                \/ ~(log.rw.exc = NoExc /\ log.rw.value)
        IN /\ not_ready <=> log.exc # NoExc
           /\ log.exc # NoExc => log.exc.type = "ClusterNotReadyError"

\* the check has raised on a replica set that can read and write but has a member syncing
C20_Witness ==
    /\ PreChecked /\ upgrade.log.role = "replication"
    /\ upgrade.log.any_sync /\ upgrade.log.rw = Outcome(TRUE, NoExc)
    /\ upgrade.log.exc = ClusterNotReadyError("Cluster is not healthy")

\* ---- C21
\* C21: on a config-server is_cluster_able_to_read_write is false whatever the state of
\* the cluster, pre_upgrade_check raises ClusterNotReadyError, and no attempt of
\* post_upgrade_check succeeds, so the unit is never marked completed.
C21_ShardedCheckNeverHealthy ==
    /\ is_sharded_cluster_able_to_read_write = FALSE
    /\ role = "config-server" =>
          /\ is_cluster_able_to_read_write(role, upgrade.units, upgrade.primary)
                = {Outcome(FALSE, NoExc)}
          /\ PreChecked => upgrade.log.exc.type = "ClusterNotReadyError"
          /\ (GrantedLog /\ upgrade.log.check.attempts > 0) =>
                /\ upgrade.log.check.exc.type = "ClusterNotReadyError"
                /\ Step("set_unit_completed") = {}

\* a config-server has made all its attempts of the post-upgrade check
C21_Witness ==
    /\ role = "config-server" /\ HandlerDone
    /\ upgrade.log.check.attempts = POST_UPGRADE_ATTEMPTS

\* ---- C22
Probed == upgrade.log.op = "probe"

\* C22: whichever way is_replica_set_able_read_write ends (true, false, or an error of
\* the write or of a read), the scratch collection does not exist any more.
C22_NoProbeWriteLeftBehind ==
    Probed => ~upgrade.log.scratch

\* ---- C23
ProbeReads == upgrade.log.reads
\* the reads that found the member not holding the written value
Missing == {i \in DOMAIN ProbeReads : ProbeReads[i].found \in {"other", "empty"}}
\* every member was read and every read was answered
AllAnswered ==
    /\ upgrade.log.write = NoExc
    /\ \A i \in DOMAIN ProbeReads : ProbeReads[i].found # "unreachable"

\* C23: is_replica_set_able_read_write returns true exactly when every member it reads
\* holds the written value, and returns false at the first member that does not hold
\* it: that read is the last one.
C23_TrueIffAllHoldFalseAtFirstMissing ==
    (Probed /\ AllAnswered) =>
        /\ upgrade.log.value = PyBool(TRUE) <=>
              /\ Missing = {}
              /\ {ProbeReads[i].host : i \in DOMAIN ProbeReads}
                    = SecondaryIps(upgrade.log.replica_ips, upgrade.log.primary_ip)
        /\ Missing # {} =>
              /\ upgrade.log.value = PyBool(FALSE) /\ upgrade.log.exc = NoExc
              /\ Missing = {Len(ProbeReads)}

\* ---- C24
HealthChecked == upgrade.log.op = "is_cluster_healthy"

\* C24: is_cluster_healthy returns False on a shard; on a replica set it returns True
\* when no member is syncing and the processed status is Active, and False otherwise.
C24_HealthyIffNoSyncAndActive ==
    HealthChecked =>
        /\ upgrade.log.role = "shard" => upgrade.log.value = PyBool(FALSE)
        /\ upgrade.log.role = "replication" =>
              upgrade.log.value =
                  PyBool(~upgrade.log.any_sync /\ upgrade.log.charm_status = ActiveStatus)

\* the check was made on a replica set with a member syncing and the status Active
C24_Witness ==
    /\ HealthChecked /\ upgrade.log.role = "replication"
    /\ upgrade.log.any_sync /\ upgrade.log.charm_status = ActiveStatus

\* ---------------------------------------------------------------- C25
\* the last step was a run of a handler of ShardingProvider, which starts with
\* pass_hook_checks
HookChecked == last.event.kind \in {"changed", "broken", "deferred", "joined"}

\* C25: pass_hook_checks defers the event while the database is not initialised, also on
\* a unit that is not the leader and lacks the config-server role; once db_initialised is
\* set it does not defer the event of a unit that is not the leader or has the wrong role
C25_DefersUntilInitialised ==
    HookChecked /\ last.raised = NoExc =>
        /\ ~db_initialised => last.defers > 0
        /\ db_initialised /\ (~is_leader \/ role # "config-server") => last.defers = 0

\* ---------------------------------------------------------------- C26
\* C26: the 'drained' flag of the application peer data and the application data of a
\* relation (operator password, keyfile, hosts) are written only by a unit that is the
\* leader at the time of the write; the same operation on a non-leader writes nothing
C26_SingleWriter ==
    /\ [](~is_leader => last.writes = << >>)
    /\ [][app_peer_data' # app_peer_data => is_leader /\ is_leader']_vars

\* the leader has sent the credentials and the hosts to a shard that has joined
C26_Witness ==
    /\ is_leader /\ last.event.kind = "joined"
    /\ \E r \in DOMAIN relations :
          last.writes = <<Write("relation", r, {OPERATOR_PASSWORD_KEY, KEYFILE_KEY,
                                                HOSTS_KEY})>>

\* ---------------------------------------------------------------- C27
\* the unit may change the cluster: config-server role, leader, database initialised
MayReconcile == role = "config-server" /\ is_leader /\ db_initialised

\* C27: addShard and removeShard are issued only by a unit that has the config-server
\* role, is the leader and has an initialised database; a relation event handled on any
\* other unit issues no cluster command, writes no relation data and raises no error
C27_OnlyLeaderConfigServerActs ==
    HookChecked =>
        /\ (\E i \in DOMAIN last.cmds : last.cmds[i].cmd \in {"addShard", "removeShard"})
              => MayReconcile
        /\ ~MayReconcile =>
              last.cmds = << >> /\ last.writes = << >> /\ last.raised = NoExc

\* ---------------------------------------------------------------- C28
IdleRead == upgrade.log.op = "idle"

\* C28: idle is true exactly when the upgrade stack is empty or has not been built, and
\* false whenever at least one member is left in the stack
C28_IdleIffStackEmpty ==
    IdleRead =>
        LET upgrade_stack == upgrade.log.upgrade_stack IN
        /\ upgrade.log.value <=> (upgrade_stack = NoValue \/ upgrade_stack = PyList(<< >>))
        /\ (upgrade_stack # NoValue /\ Len(upgrade_stack.v) >= 1) => ~upgrade.log.value

\* idle has been read as true before the stack is built
C28_Witness == IdleRead /\ upgrade.log.upgrade_stack = NoValue /\ upgrade.log.value

\* ---------------------------------------------------------------- C29
\* the step is a pass of the reconciler
PassDone == last'.ran /\ last'.event.kind \in {"changed", "broken", "deferred"}

\* the shards that are desired and members of the cluster when the pass starts
Kept ==
    _get_shards_from_relations(relations, last'.event.relation) \cap ShardMembers(shards)

\* C29: a shard whose name is in the desired set and in the live cluster is the target of
\* no addShard and of no removeShard command of the pass, whatever its host list
C29_MembershipByNameOnly ==
    [][PassDone =>
         \A i \in DOMAIN last'.cmds :
            last'.cmds[i].cmd \in {"addShard", "removeShard"}
                => last'.cmds[i].shard \notin Kept]_vars

\* a pass has ended without an error with a shard that was desired and a member when it
\* started, and whose hosts in the cluster are not the hosts of its relation
C29_Witness ==
    /\ last.ran /\ last.event.kind = "changed" /\ last.raised = NoExc
    /\ \E n \in _get_shards_from_relations(relations, NoRelation) \cap Ids(shards) :
          /\ \E i \in DOMAIN last.calls :
                /\ last.calls[i].op = "add_shards"
                /\ n \in last.calls[i].cluster_shards \cap last.calls[i].relation_shards
          /\ Doc(shards, n).host
                # ShardUrl(n, _get_shard_hosts(relations, n), MONGODB_PORT)

\* ---------------------------------------------------------------- C30
\* remove_shard was called for a target that is itself the only draining shard
ReRemoval(i) == last.calls[i].draining = {last.calls[i].shard}

\* C30: when the target of remove_shard is the only shard with draining = true, the call
\* is not blocked by the concurrent-drain check (no NotReadyError) and issues the
\* removeShard command again for that target
C30_ReRemovalOfDrainingTargetAllowed ==
    \A i \in RemoveShardCalls :
        ReRemoval(i) =>
            /\ last.exc # Exc("NotReadyError")
            /\ Len(last.cmds) > last.calls[i].at
            /\ last.cmds[last.calls[i].at + 1].cmd = "removeShard"
            /\ last.cmds[last.calls[i].at + 1].shard = last.calls[i].shard

\* the removeShard repeated for the draining target was accepted by the router
C30_Witness ==
    \E i \in RemoveShardCalls :
        /\ ReRemoval(i)
        /\ last.cmds[last.calls[i].at + 1].exc = NoExc

\* ---------------------------------------------------------------- C31
\* the leader has recorded drained = true in the application peer data
LeaderRecordedDrained ==
    "drained" \in DOMAIN app_peer_data /\ app_peer_data.drained = JsonDumps(PyBool(TRUE)).v

\* C31: on a shard unit that is not the leader, drained() reports 'not drained' as long as
\* the leader has not recorded drained = true (a missing flag counts as not drained), so
\* a poll of the non-leader does not end its wait loop before that
C31_NonLeaderWaitsForLeader ==
    (Polled /\ role = "shard" /\ ~is_leader /\ ~LeaderRecordedDrained) =>
        /\ ~Truthy(last.value)
        /\ waiting

\* ---------------------------------------------------------------- C32
\* the last step was a run of _on_relation_event on a unit that passes the hook checks
EventHandled == last.event.kind \in {"changed", "broken", "deferred"} /\ MayReconcile

\* C32: while a backup or a restore is in progress (the pbm status is Maintenance),
\* _on_relation_event of a unit that passes the hook checks sends no command to the
\* router, so no addShard and no removeShard, and defers the event
C32_BackupDefersReconcile ==
    (EventHandled /\ pbm_maintenance) =>
        /\ last.cmds = << >>
        /\ ~last.ran
        /\ last.defers = 1 /\ last.raised = NoExc

\* an event was deferred for a backup with a shard waiting to be added
C32_Witness ==
    /\ EventHandled /\ pbm_maintenance /\ last.defers = 1
    /\ _get_shards_from_relations(relations, NoRelation) \ ShardMembers(shards) # {}

\* ---------------------------------------------------------------- C33
\* the members the probe has read
HostsRead == {ProbeReads[i].host : i \in DOMAIN ProbeReads}

\* C33: the probe reads the marker back from exactly the members other than the primary:
\* the primary is never read as a secondary, and a probe that has read every member it
\* has to (it returns true) has read the unit addresses minus the primary's address
C33_ReadsExactlyTheSecondaries ==
    (Probed /\ upgrade.log.write = NoExc) =>
        /\ upgrade.log.primary_ip \notin HostsRead
        /\ upgrade.log.value = PyBool(TRUE) =>
              HostsRead = upgrade.log.replica_ips \ {upgrade.log.primary_ip}

\* ---------------------------------------------------------------- C34
\* the last step was a pass of the reconciler for a relation-broken event
BrokenPass == last.ran /\ last.event.kind = "broken"
\* the shard of the relation that is broken
DepartedShard == _get_shard_name_from_relation(last.event.relation)
\* the relations of the unit when the pass started: the broken relation is gone after a
\* pass that let no error escape
RelationsAtStart ==
    IF BrokenPass THEN DOMAIN relations \cup {last.event.relation} ELSE DOMAIN relations
\* the desired sets the pass has worked with
DesiredSets ==
    {last.calls[i].relation_shards : i \in CallsOf("add_shards") \cup CallsOf("remove_shards")}

\* C34 as stated: in a pass for relation-broken of r the shard of r is not desired, is not
\* added, and a removal is attempted for it whenever remove_shards finds it in the
\* cluster (unless the router cannot be read); in a pass for any other event the desired set holds the shard of every relation
C34_DepartedExcludedAndRemoved ==
    /\ BrokenPass =>
          /\ \A D \in DesiredSets :
                D = {_get_shard_name_from_relation(r) :
                        r \in RelationsAtStart \ {last.event.relation}}
          /\ DepartedShard \notin ShardsOf("addShard")
          /\ \A i \in CallsOf("remove_shards") :
                DepartedShard \in last.calls[i].cluster_shards
                => \/ \E k \in RemoveShardCalls : last.calls[k].shard = DepartedShard
                   \/ last.exc \in ReadFailures
    /\ (last.ran /\ last.event.kind \in {"changed", "deferred"}) =>
          \A D \in DesiredSets :
             D = {_get_shard_name_from_relation(r) : r \in RelationsAtStart}

\* C34: in a pass for relation-broken of r the shard of r is not desired and is not added;
\* when remove_shards finds it in the cluster it is a target of the removal, and
\* remove_shard is called for it unless the pass ends with an error first; in a pass for
\* any other event the desired set holds the shard of every relation
C34_DepartedExcludedAndTargeted ==
    /\ BrokenPass =>
          /\ \A D \in DesiredSets :
                D = {_get_shard_name_from_relation(r) :
                        r \in RelationsAtStart \ {last.event.relation}}
          /\ DepartedShard \notin ShardsOf("addShard")
          /\ \A i \in CallsOf("remove_shards") :
                DepartedShard \in last.calls[i].cluster_shards
                => /\ DepartedShard \in RemoveTargets(last.calls[i].cluster_shards,
                                                      last.calls[i].relation_shards)
                   /\ \/ \E k \in RemoveShardCalls : last.calls[k].shard = DepartedShard
                      \/ last.exc # NoExc
    /\ (last.ran /\ last.event.kind \in {"changed", "deferred"}) =>
          \A D \in DesiredSets :
             D = {_get_shard_name_from_relation(r) : r \in RelationsAtStart}

\* the pass for the broken relation of a member has sent removeShard for its shard, with
\* another relation still there
C34_Witness ==
    /\ BrokenPass /\ DOMAIN relations \ {last.event.relation} # {}
    /\ \E i \in CallsOf("remove_shards") : DepartedShard \in last.calls[i].cluster_shards
    /\ DepartedShard \in ShardsOf("removeShard")

\* ---------------------------------------------------------------- C35
\* the services of the unit have been restarted with the new version
Restarted == GrantedLog /\ Step("restart_charm_services") # {}

\* C35: a member that was the primary when its upgrade was granted restarts its services
\* only after a member other than itself has been observed as primary; it is never
\* restarted with itself as the primary last observed
C35_PrimaryRestartedOnlyAfterHandover ==
    (Restarted /\ upgrade.log.was_primary) =>
        /\ upgrade.log.stepdown.attempts >= 1
        /\ upgrade.log.stepdown.new_primary # UnitName(ThisUnit)
        /\ upgrade.log.stepdown.new_primary # NoPrimary

\* ---------------------------------------------------------------- C36
\* C36: a handling of an upgrade grant that has ended has called exactly one of
\* set_unit_completed and set_unit_failed, once, and set_unit_completed only after a
\* post-upgrade check that succeeded
C36_ExactlyOneTerminalMark ==
    HandlerDone =>
        /\ Cardinality(Step("set_unit_completed") \cup Step("set_unit_failed")) = 1
        /\ Step("set_unit_completed") # {} =>
              /\ upgrade.log.check.attempts >= 1 /\ upgrade.log.check.exc = NoExc
              /\ \A i \in Step("post_upgrade_check") :
                    \A j \in Step("set_unit_completed") : i < j

\* ---------------------------------------------------------------- C37
\* C37: the stack built for a replica set is a permutation of the ids of its members:
\* every id once and nothing else, also when no member is the primary at build time
C37_StackIsPermutationOfMembers ==
    Built =>
        /\ \A u \in upgrade.log.units : Cardinality(Positions(BuiltStack, u)) = 1
        /\ \A i \in DOMAIN BuiltStack : BuiltStack[i] \in upgrade.log.units

\* ---------------------------------------------------------------- C38
ReadyForRemoval == <<"Active", "Shard drained from cluster, ready for removal">>

\* C38: the relation-broken handler of the shard sets the status 'Shard drained from
\* cluster, ready for removal' only when the shard is absent from the shard list of the
\* router, never while the shard is still listed
C38_ReadyOnlyWhenUnlisted ==
    (Polled /\ status = ReadyForRemoval) => ThisApp \notin Ids(shards)

\* ---------------------------------------------------------------- C39
\* the shards that are in the cluster and not desired
Unwanted == ShardMembers(shards) \ _get_shards_from_relations(relations, NoRelation)
\* a pass has ended without deferring, no unwanted shard being left
RemovalDone == Unwanted = {} /\ last.ran /\ last.defers = 0 /\ last.raised = NoExc
\* the router has accepted a removeShard for shard s in the last pass
RemoveAccepted(s) ==
    \E i \in Issued("removeShard") : last.cmds[i].shard = s /\ last.cmds[i].exc = NoExc
\* the last step was a re-run of the deferred event in which every command was answered
\* (no failure of the connection or of the router)
AnsweredRerun ==
    /\ last.ran /\ last.event.kind = "deferred"
    /\ last.exc.type \in {"none", "NotDrainedError", "NotReadyError"}
\* the re-run has brought the removal forward: it has completed it, or it is deferred
\* after a removeShard that the router accepted
Progressed ==
    \/ RemovalDone
    \/ last.defers > 0 /\ \E s \in Unwanted : RemoveAccepted(s)

SpecBrokenFair == SpecBroken /\ WF_vars(Poll)

\* the shard is absent from the shard list of the router
ShardGone == ThisApp \notin Ids(shards)

\* the last poll was answered by the router
PollsReachRouter == ~(Polled /\ IsPyMongoError(last.exc))

\* the wait loop has ended with drained = true in the application peer data
WaitEnded == ~waiting /\ LeaderRecordedDrained

\* C40: if the shard eventually becomes and stays absent from the shard list of the
\* router and the polls eventually reach the router, the wait loop of the shard leader
\* eventually ends and drained = true is recorded in the application peer data
C40_DrainWaitTerminates ==
    (<>[]ShardGone /\ <>[]PollsReachRouter /\ [](waiting => is_leader)) =>
        (waiting ~> WaitEnded)

\* the leader left the loop on ShardNotInClusterError and recorded drained = true
C40_Witness ==
    /\ Polled /\ is_leader /\ ShardGone
    /\ last.exc.type = "ShardNotInClusterError"
    /\ WaitEnded

====
